---- MODULE Spec2Model ----
(***************************************************************************)
(* Commit-reconciliation engine of vault-plugin-gitops-terraform:          *)
(* the periodic trigger with its CAS guard (periodic.go), the signed-      *)
(* commit Locator (pkg/git_repository/git.go) and the checkpoint keys      *)
(* last_finished_commit, last_periodic_run_timestamp and process_status.   *)
(*                                                                         *)
(* A commit hash is the position of the commit in the (append-only,        *)
(* linear) history, 1 being the root; 0 stands for the empty string.       *)
(* Time is counted in whole seconds, as time.Unix stores it.               *)
(***************************************************************************)
EXTENDS Integers, Sequences, FiniteSets, TLC

\* ------------------------------------------------------------------ bounds
MaxCommits == 2
MaxTime == 3
MaxDate == 2
MaxHistory == 3

\* --------------------------------------------------- configuration values
\* git_poll_period, in seconds. The field takes any number of seconds; with 0
\* a poll is due as soon as the clock has moved past the last run's second.
GitPollPeriod == 0

\* the clock starts late enough for the first poll to be due: the timestamp
\* key is absent (0) and more than a poll period has passed since the epoch
StartTime == GitPollPeriod + 1

\* the goroutines that can be inside PeriodicTask at the same time
Triggers == {1, 2}

\* the trusted PGP public keys held in storage
TrustedKeys == {"K1", "K2"}

\* ---------------------------------------------------------------- state
VARIABLES
  lastFinishedCommit,   \* storage key last_finished_commit (a CommitInfo)
  lastRunTimestamp,     \* storage key last_periodic_run_timestamp
  processStatus,        \* storage key process_status
  processGitCASGuard,   \* the in-memory guard, 0 free / 1 busy
  config,               \* git repository configuration (set or not, quorum)
  history,              \* the remote repository: commits, root first
  now,                  \* wall clock
  pc,                   \* position of each trigger / of the body it started
  lfcArg,               \* PeriodicTask's local lastFinishedCommit
  commitHash,           \* processGit's local commitHash (Locator result)
  hashCommit,           \* processCommit's parameter hashCommit
  applyResult,          \* processGit's err after processCommit returned
  worktree,             \* the commit checked out in processCommit's clone (0: none)
  outcome,              \* how processGit left: its return value
  verified,             \* commits the last Locator call verified signatures of
  lfcAtAcquire,         \* last_finished_commit when the guard was acquired
  pushedSinceFinish,    \* a commit was pushed after the checkpoint was last written
  pending,              \* the failed or crashed attempt no later attempt followed
  seenPending,          \* the trigger read the checkpoint after the attempt in pending ended
  retryOf,              \* the failed or crashed attempt this attempt follows
  pushedSinceLocate,    \* a commit was pushed after the running attempt's clone
  vault,                \* the target Vault: the <<name, content>> entries it holds
  files,                \* the files of the commit being applied: name -> content
  pushed,               \* names the running processCommit has sent to Vault
  failedPartway,        \* a processCommit call failed after it had sent something
  tfState,              \* storage key terraform_state (0: absent or empty)
  tfFile,               \* terraform.tfstate in the temporary directory (0: none or empty)
  tfStage,              \* where ApplyTerraformFromRepo is
  tfErr,                \* the error ApplyTerraformFromRepo returns
  vaultTokenTTL,        \* backend.vaultTokenTTL, the cached TokenTTL (NoTokenTTL: nil)
  vaultToken,           \* vault_token of the stored vault client configuration ("": none)
  tokenPc,              \* position of the token check goroutine each trigger started
  ttl,                  \* checkAndUpdateVaultTokenExpireTime's local ttl
  tokenErr,             \* what the token check goroutine returned
  tokenLog,             \* the last line the token check logged
  lastStartedCommit,    \* storage key last_started_commit (task-queue variant; 0: empty)
  task,                 \* the task the tasks manager is running or ran last
  newTimeStamp          \* task-queue variant: processGit's local newTimeStamp

storageVars == <<lastFinishedCommit, lastRunTimestamp, processStatus>>
envVars == <<config, history, now>>
localVars == <<pc, lfcArg, commitHash, hashCommit, applyResult, worktree, outcome>>
ghostVars == <<verified, lfcAtAcquire, pushedSinceFinish, pending, seenPending, retryOf,
               pushedSinceLocate>>
terraformVars == <<tfState, tfFile, tfStage, tfErr>>
applierVars == <<vault, files, pushed, failedPartway, terraformVars>>
tokenVars == <<vaultTokenTTL, vaultToken, tokenPc, ttl, tokenErr, tokenLog>>
queueVars == <<lastStartedCommit, task, newTimeStamp>>
otherVars == <<applierVars, tokenVars, queueVars>>
vars == <<storageVars, processGitCASGuard, envVars, localVars, ghostVars, otherVars>>

\* ------------------------------------------------------------ data types
\* CommitInfo{CommitHash, CommitDate}; NoCommit is the nil pointer / empty string
NoCommit == [CommitHash |-> 0, CommitDate |-> 0]

CommitInfo(h, d) == [CommitHash |-> h, CommitDate |-> d]

NoPending == [kind |-> "none", commit |-> 0, boundary |-> 0]

StatusNone == <<"", 0>>
StatusNoNew == <<"No new signed commit found", 0>>
StatusProcessing(h) == <<"Processing commit", h>>
StatusFailed(h) == <<"FAILED processing commit", h>>
StatusSuccess(h) == <<"Successfully processed commit", h>>

\* ------------------------------------------------------------- Locator
\* trdlGit.VerifyCommitSignatures: distinct trusted keys with a valid signature
DistinctTrustedSigners(sigs) == {sigs[i] : i \in 1..Len(sigs)} \cap TrustedKeys

VerifyCommitSignatures(repo, h, quorum) ==
  Cardinality(DistinctTrustedSigners(repo[h].Signatures)) >= quorum

HeadCommit(repo) == Len(repo)

\* the loop without the boundary check
RECURSIVE WalkNoBoundary(_, _, _, _, _, _)
WalkNoBoundary(repo, i, lfc, currentTime, quorum, seen) ==
  IF i = 0 THEN [found |-> NoCommit, verified |-> seen]
  ELSE IF ~VerifyCommitSignatures(repo, i, quorum)
    THEN WalkNoBoundary(repo, i - 1, lfc, currentTime, quorum, seen \cup {i})
  ELSE IF repo[i].CommitDate > currentTime
    THEN WalkNoBoundary(repo, i - 1, lfc, currentTime, quorum, seen \cup {i})
  ELSE IF lfc # NoCommit /\ repo[i].CommitDate < lfc.CommitDate
    THEN WalkNoBoundary(repo, i - 1, lfc, currentTime, quorum, seen \cup {i})
  ELSE [found |-> CommitInfo(i, repo[i].CommitDate), verified |-> seen \cup {i}]

\* the loop without the signature check
RECURSIVE WalkNoVerify(_, _, _, _, _, _)
WalkNoVerify(repo, i, lfc, currentTime, quorum, seen) ==
  IF i = 0 THEN [found |-> NoCommit, verified |-> seen]
  ELSE IF lfc.CommitHash # 0 /\ i = lfc.CommitHash
    THEN [found |-> NoCommit, verified |-> seen]
  ELSE IF repo[i].CommitDate > currentTime
    THEN WalkNoVerify(repo, i - 1, lfc, currentTime, quorum, seen)
  ELSE IF lfc # NoCommit /\ repo[i].CommitDate < lfc.CommitDate
    THEN WalkNoVerify(repo, i - 1, lfc, currentTime, quorum, seen)
  ELSE [found |-> CommitInfo(i, repo[i].CommitDate), verified |-> seen]

\* the loop with break in place of continue on a date check that fails
RECURSIVE WalkStopOnDate(_, _, _, _, _, _)
WalkStopOnDate(repo, i, lfc, currentTime, quorum, seen) ==
  IF i = 0 THEN [found |-> NoCommit, verified |-> seen]
  ELSE IF lfc.CommitHash # 0 /\ i = lfc.CommitHash
    THEN [found |-> NoCommit, verified |-> seen]
  ELSE IF ~VerifyCommitSignatures(repo, i, quorum)
    THEN WalkStopOnDate(repo, i - 1, lfc, currentTime, quorum, seen \cup {i})
  ELSE IF repo[i].CommitDate > currentTime
    THEN [found |-> NoCommit, verified |-> seen \cup {i}]
  ELSE IF lfc # NoCommit /\ repo[i].CommitDate < lfc.CommitDate
    THEN [found |-> NoCommit, verified |-> seen \cup {i}]
  ELSE [found |-> CommitInfo(i, repo[i].CommitDate), verified |-> seen \cup {i}]

\* the loop with the date comparisons made inclusive: a commit dated exactly
\* at the current time, or at the last finished commit's date, is skipped
RECURSIVE WalkInclusiveDates(_, _, _, _, _, _)
WalkInclusiveDates(repo, i, lfc, currentTime, quorum, seen) ==
  IF i = 0 THEN [found |-> NoCommit, verified |-> seen]
  ELSE IF lfc.CommitHash # 0 /\ i = lfc.CommitHash
    THEN [found |-> NoCommit, verified |-> seen]
  ELSE IF ~VerifyCommitSignatures(repo, i, quorum)
    THEN WalkInclusiveDates(repo, i - 1, lfc, currentTime, quorum, seen \cup {i})
  ELSE IF repo[i].CommitDate >= currentTime
    THEN WalkInclusiveDates(repo, i - 1, lfc, currentTime, quorum, seen \cup {i})
  ELSE IF lfc # NoCommit /\ repo[i].CommitDate <= lfc.CommitDate
    THEN WalkInclusiveDates(repo, i - 1, lfc, currentTime, quorum, seen \cup {i})
  ELSE [found |-> CommitInfo(i, repo[i].CommitDate), verified |-> seen \cup {i}]

\* the loop of FindFirstSignedCommitFromHead, from commit i towards the root;
\* seen is the set of commits whose signatures were verified so far
RECURSIVE Walk(_, _, _, _, _, _)
Walk(repo, i, lfc, currentTime, quorum, seen) ==
  IF i = 0 THEN [found |-> NoCommit, verified |-> seen]
  ELSE IF lfc.CommitHash # 0 /\ i = lfc.CommitHash
    THEN [found |-> NoCommit, verified |-> seen]
  ELSE IF ~VerifyCommitSignatures(repo, i, quorum)
    THEN Walk(repo, i - 1, lfc, currentTime, quorum, seen \cup {i})
  ELSE IF repo[i].CommitDate > currentTime
    THEN Walk(repo, i - 1, lfc, currentTime, quorum, seen \cup {i})
  ELSE IF lfc # NoCommit /\ repo[i].CommitDate < lfc.CommitDate
    THEN Walk(repo, i - 1, lfc, currentTime, quorum, seen \cup {i})
  ELSE [found |-> CommitInfo(i, repo[i].CommitDate), verified |-> seen \cup {i}]

\* the walk in the other direction: from commit i towards the tip
RECURSIVE WalkUp(_, _, _, _, _, _)
WalkUp(repo, i, lfc, currentTime, quorum, seen) ==
  IF i > Len(repo) THEN [found |-> NoCommit, verified |-> seen]
  ELSE IF ~VerifyCommitSignatures(repo, i, quorum)
    THEN WalkUp(repo, i + 1, lfc, currentTime, quorum, seen \cup {i})
  ELSE IF repo[i].CommitDate > currentTime
    THEN WalkUp(repo, i + 1, lfc, currentTime, quorum, seen \cup {i})
  ELSE IF lfc # NoCommit /\ repo[i].CommitDate < lfc.CommitDate
    THEN WalkUp(repo, i + 1, lfc, currentTime, quorum, seen \cup {i})
  ELSE [found |-> CommitInfo(i, repo[i].CommitDate), verified |-> seen \cup {i}]

\* the search started at the commit after the boundary instead of at the head
FindFirstSignedCommitFromBoundary(repo, lfc, currentTime, quorum) ==
  IF lfc.CommitHash # 0 /\ lfc.CommitHash = HeadCommit(repo)
    THEN [found |-> NoCommit, verified |-> {}]
    ELSE WalkUp(repo, IF lfc.CommitHash \in 1..Len(repo) THEN lfc.CommitHash + 1 ELSE 1,
                lfc, currentTime, quorum, {})

\* FindFirstSignedCommitFromHead on a successful clone of repo
FindFirstSignedCommitFromHead(repo, lfc, currentTime, quorum) ==
  IF lfc.CommitHash # 0 /\ lfc.CommitHash = HeadCommit(repo)
    THEN [found |-> NoCommit, verified |-> {}]
    ELSE Walk(repo, HeadCommit(repo), lfc, currentTime, quorum, {})

\* no Vault content is modelled: nothing in the target, no files, nothing sent
NoApplier ==
  /\ vault = {}
  /\ files = {}
  /\ pushed = {}
  /\ failedPartway = FALSE
  /\ tfState = 0
  /\ tfFile = 0
  /\ tfStage = "none"
  /\ tfErr = "none"

\* the nil *TokenTTL: the zero TTL and the zero time
NoTokenTTL == [TTL |-> 0, ExpireTime |-> 0]

\* no token check is modelled: nothing cached, no goroutine
NoToken ==
  /\ vaultTokenTTL = NoTokenTTL
  /\ vaultToken = ""
  /\ tokenPc = [p \in Triggers |-> "idle"]
  /\ ttl = [p \in Triggers |-> NoTokenTTL]
  /\ tokenErr = [p \in Triggers |-> "none"]
  /\ tokenLog = [p \in Triggers |-> ""]

NoTask == [state |-> "none", commit |-> 0]

\* the task-queue variant is not modelled: no key, no task
NoQueue ==
  /\ lastStartedCommit = 0
  /\ task = NoTask
  /\ newTimeStamp = [p \in Triggers |-> 0]

\* ------------------------------------------------------------ helpers
\* the goroutine processGitInternal of trigger p is running (or scheduled)
InBody(p) == pc[p] \notin {"idle", "cas", "retNil", "retErr"}

\* the Locator returned a commit and last_finished_commit is not written yet
AfterLocateBeforeStore(p) ==
  pc[p] \in {"storeProcessing", "applying", "storeFailed", "storeSuccess", "storeLFC"}

\* processGit returns: the deferred guard reset is what is left to run
Return(p, how) ==
  /\ pc' = [pc EXCEPT ![p] = "exit"]
  /\ outcome' = [outcome EXCEPT ![p] = how]

\* the interval check met by exactly the interval
checkExceedingIntervalInclusive(interval) == now - lastRunTimestamp >= interval

\* checkExceedingInterval: more than interval since the stored timestamp
checkExceedingInterval(interval) == now - lastRunTimestamp > interval

\* the clone is left at the tip of the branch
cloneRepositoryAtTip(repo, h) == HeadCommit(repo)

\* cloneRepositoryAtCommit: clone the branch, check out the commit with the
\* given hash; 0 when the clone does not hold it
cloneRepositoryAtCommit(repo, h) == IF h \in 1..Len(repo) THEN h ELSE 0

\* the commit processGit hands to processCommit: *commitHash
ApplyTarget(p) == commitHash[p].CommitHash

\* a plain store in place of the compare-and-swap
CompareAndSwapAlways(old, new) == [swapped |-> TRUE, value |-> new]

\* atomic.CompareAndSwapUint32(b.processGitCASGuard, 0, 1)
CompareAndSwap(old, new) ==
  IF processGitCASGuard = old
    THEN [swapped |-> TRUE, value |-> new]
    ELSE [swapped |-> FALSE, value |-> processGitCASGuard]

\* the busy guard reported as an error, with a status written
TaskAlreadyInProgressErr(p) ==
  /\ pc' = [pc EXCEPT ![p] = "retErr"]
  /\ processStatus' = StatusNoNew
  /\ UNCHANGED <<lastFinishedCommit, lastRunTimestamp>>

\* "GitOps task already in progress, skipping this iteration": return nil
TaskAlreadyInProgress(p) ==
  /\ pc' = [pc EXCEPT ![p] = "retNil"]
  /\ UNCHANGED storageVars

\* --------------------------------------------------------------- Init
Init ==
  /\ lastFinishedCommit = NoCommit
  /\ lastRunTimestamp = 0
  /\ processStatus = StatusNone
  /\ processGitCASGuard = 0
  /\ config \in {[IsSet |-> TRUE, Quorum |-> 1], [IsSet |-> FALSE, Quorum |-> 0]}
  /\ history = <<>>
  /\ now = StartTime
  /\ pc = [p \in Triggers |-> "idle"]
  /\ lfcArg = [p \in Triggers |-> NoCommit]
  /\ commitHash = [p \in Triggers |-> NoCommit]
  /\ hashCommit = [p \in Triggers |-> 0]
  /\ applyResult = [p \in Triggers |-> "none"]
  /\ worktree = [p \in Triggers |-> 0]
  /\ outcome = [p \in Triggers |-> "none"]
  /\ verified = {}
  /\ lfcAtAcquire = [p \in Triggers |-> NoCommit]
  /\ pushedSinceFinish = FALSE
  /\ pending = NoPending
  /\ seenPending = [p \in Triggers |-> FALSE]
  /\ retryOf = [p \in Triggers |-> NoPending]
  /\ pushedSinceLocate = FALSE
  /\ NoApplier
  /\ NoToken
  /\ NoQueue

\* ------------------------------------------------------- PeriodicTask
\* PeriodicTask is returning to its caller without having started a body.
\* The return touches nothing shared, so it is taken before any other step.
Returning == \E q \in Triggers : pc[q] \in {"retNil", "retErr"}

\* PeriodicTask up to the CAS: read last_finished_commit from storage
PeriodicTaskGet(p) ==
  /\ ~Returning
  /\ pc[p] = "idle"
  /\ \A q \in Triggers : q < p => pc[q] # "idle"
  /\ \E ok \in BOOLEAN :
       IF ok
         THEN /\ pc' = [pc EXCEPT ![p] = "cas"]
              /\ lfcArg' = [lfcArg EXCEPT ![p] = lastFinishedCommit]
              /\ seenPending' = [seenPending EXCEPT ![p] = pending # NoPending]
         ELSE /\ pc' = [pc EXCEPT ![p] = "retErr"]
              /\ UNCHANGED <<lfcArg, seenPending>>
  /\ UNCHANGED <<storageVars, processGitCASGuard, envVars, commitHash, hashCommit,
                 applyResult, worktree, outcome, verified, lfcAtAcquire, pushedSinceFinish, pending,
                 retryOf,
                 pushedSinceLocate>>
  /\ UNCHANGED <<applierVars, queueVars>>

\* the same, the token check goroutine left out
PeriodicTaskRead(p) ==
  /\ PeriodicTaskGet(p)
  /\ UNCHANGED tokenVars

\* the CAS guard: busy, return nil; free, take it, start the goroutine, return nil
PeriodicTaskCAS(p) ==
  /\ ~Returning
  /\ pc[p] = "cas"
  /\ LET cas == CompareAndSwap(0, 1) IN
       /\ processGitCASGuard' = cas.value
       /\ IF cas.swapped
            THEN /\ pc' = [pc EXCEPT ![p] = "begin"]
                 /\ lfcAtAcquire' = [lfcAtAcquire EXCEPT ![p] = lastFinishedCommit]
                 /\ UNCHANGED <<storageVars, lfcArg, seenPending>>
            ELSE /\ TaskAlreadyInProgress(p)
                 /\ lfcArg' = [lfcArg EXCEPT ![p] = NoCommit]
                 /\ seenPending' = [seenPending EXCEPT ![p] = FALSE]
                 /\ UNCHANGED lfcAtAcquire
  /\ UNCHANGED <<envVars, commitHash, hashCommit, applyResult, worktree, outcome, verified,
                 pushedSinceFinish, pending, retryOf,
                 pushedSinceLocate>>
  /\ UNCHANGED otherVars

\* PeriodicTask has returned (nil or an error) without starting a goroutine
PeriodicTaskReturn(p) ==
  /\ pc[p] \in {"retNil", "retErr"}
  /\ pc' = [pc EXCEPT ![p] = "idle"]
  /\ UNCHANGED <<storageVars, processGitCASGuard, envVars, lfcArg, commitHash,
                 hashCommit, applyResult, worktree, outcome, ghostVars>>
  /\ UNCHANGED otherVars

\* --------------------------------------------------------- processGit
\* the body runs under the context of the call that started it, which has
\* ended: it does not get past its first call
processGitBeginCancelled(p) ==
  /\ ~Returning
  /\ pc[p] = "begin"
  /\ UNCHANGED vars

\* the configuration error is put into process_status before returning
processGitBeginStatus(p) ==
  /\ ~Returning
  /\ pc[p] = "begin"
  /\ IF ~config.IsSet
       THEN /\ Return(p, "configErr")
            /\ processStatus' = StatusFailed(0)
       ELSE /\ UNCHANGED processStatus
            /\ \E ok \in BOOLEAN :
                 IF ~ok THEN Return(p, "storageErr")
                 ELSE IF ~checkExceedingInterval(GitPollPeriod)
                   THEN Return(p, "notExceeded")
                   ELSE /\ pc' = [pc EXCEPT ![p] = "updateTs"]
                        /\ UNCHANGED outcome
  /\ UNCHANGED <<lastFinishedCommit, lastRunTimestamp, processGitCASGuard, envVars,
                 lfcArg, commitHash, hashCommit, applyResult, worktree, ghostVars>>
  /\ UNCHANGED otherVars

\* GetConfig and checkExceedingInterval
processGitBegin(p) ==
  /\ ~Returning
  /\ pc[p] = "begin"
  /\ IF ~config.IsSet
       THEN Return(p, "configErr")
       ELSE \E ok \in BOOLEAN :
              IF ~ok THEN Return(p, "storageErr")
              ELSE IF ~checkExceedingInterval(GitPollPeriod)
                THEN Return(p, "notExceeded")
                ELSE /\ pc' = [pc EXCEPT ![p] = "updateTs"]
                     /\ UNCHANGED outcome
  /\ UNCHANGED <<storageVars, processGitCASGuard, envVars, lfcArg, commitHash,
                 hashCommit, applyResult, worktree, ghostVars>>
  /\ UNCHANGED otherVars

\* the attempt goes on to the Locator with the stored timestamp left as it was
updateLastRunTimeStampSkipped(p) ==
  /\ ~Returning
  /\ pc[p] = "updateTs"
  /\ pc' = [pc EXCEPT ![p] = "locate"]
  /\ UNCHANGED <<storageVars, outcome, processGitCASGuard, envVars,
                 lfcArg, commitHash, hashCommit, applyResult, worktree, ghostVars>>
  /\ UNCHANGED otherVars

\* newTimeStamp := systemClock.Now(); updateLastRunTimeStamp
updateLastRunTimeStamp(p) ==
  /\ ~Returning
  /\ pc[p] = "updateTs"
  /\ \E ok \in BOOLEAN :
       IF ok
         THEN /\ lastRunTimestamp' = now
              /\ pc' = [pc EXCEPT ![p] = "locate"]
              /\ UNCHANGED outcome
         ELSE /\ Return(p, "storageErr")
              /\ UNCHANGED lastRunTimestamp
  /\ UNCHANGED <<lastFinishedCommit, processStatus, processGitCASGuard, envVars,
                 lfcArg, commitHash, hashCommit, applyResult, worktree, ghostVars>>
  /\ UNCHANGED otherVars

\* the Locator call: clone (may fail), walk from the head
Locate(p) ==
  /\ ~Returning
  /\ pc[p] = "locate"
  /\ \E cloned \in BOOLEAN :
       IF ~cloned \/ Len(history) = 0
         THEN /\ Return(p, "locateErr")
              /\ UNCHANGED <<commitHash, verified, pending, seenPending, retryOf,
                 pushedSinceLocate>>
         ELSE LET r == FindFirstSignedCommitFromHead(history, lfcArg[p], now, config.Quorum) IN
              /\ commitHash' = [commitHash EXCEPT ![p] = r.found]
              /\ verified' = r.verified
              /\ pc' = [pc EXCEPT ![p] = IF r.found = NoCommit THEN "storeNoNew"
                                                               ELSE "storeProcessing"]
              /\ retryOf' = [retryOf EXCEPT ![p] = IF seenPending[p]
                                                     THEN pending ELSE NoPending]
              /\ seenPending' = [q \in Triggers |-> FALSE]
              /\ pending' = NoPending
              /\ pushedSinceLocate' = FALSE
              /\ UNCHANGED outcome
  /\ UNCHANGED <<storageVars, processGitCASGuard, envVars, lfcArg, hashCommit,
                 applyResult, worktree, lfcAtAcquire, pushedSinceFinish>>
  /\ UNCHANGED otherVars

\* commitHash == nil: status "No new signed commit found"
storeNoNew(p) ==
  /\ ~Returning
  /\ pc[p] = "storeNoNew"
  /\ \E ok \in BOOLEAN :
       IF ok
         THEN /\ processStatus' = StatusNoNew
              /\ Return(p, "noCommit")
         ELSE /\ Return(p, "storageErr")
              /\ UNCHANGED processStatus
  /\ verified' = {}
  /\ UNCHANGED <<lastFinishedCommit, lastRunTimestamp, processGitCASGuard, envVars,
                 lfcArg, commitHash, hashCommit, applyResult, worktree, lfcAtAcquire,
                 pushedSinceFinish, pending, seenPending, retryOf,
                 pushedSinceLocate>>
  /\ UNCHANGED otherVars

\* status "Processing commit" (the error of the write is ignored), then
\* b.processCommit(ctx, storage, *commitHash) is entered
storeProcessing(p) ==
  /\ ~Returning
  /\ pc[p] = "storeProcessing"
  /\ \E ok \in BOOLEAN :
       processStatus' = IF ok THEN StatusProcessing(commitHash[p].CommitHash)
                              ELSE processStatus
  /\ hashCommit' = [hashCommit EXCEPT ![p] = ApplyTarget(p)]
  /\ pc' = [pc EXCEPT ![p] = "applying"]
  /\ verified' = {}
  /\ UNCHANGED <<lastFinishedCommit, lastRunTimestamp, processGitCASGuard, envVars,
                 lfcArg, commitHash, applyResult, worktree, outcome, lfcAtAcquire,
                 pushedSinceFinish, pending, seenPending, retryOf,
                 pushedSinceLocate>>
  /\ UNCHANGED otherVars

\* processCommit's error is not looked at
processCommitIgnoreErr(p) ==
  /\ ~Returning
  /\ pc[p] = "applying"
  /\ \E ok \in BOOLEAN :
       IF ok
         THEN /\ pc' = [pc EXCEPT ![p] = "storeSuccess"]
              /\ applyResult' = [applyResult EXCEPT ![p] = "nil"]
              /\ worktree' = [worktree EXCEPT ![p] = cloneRepositoryAtCommit(history, hashCommit[p])]
              /\ UNCHANGED <<pending, seenPending>>
         ELSE /\ pc' = [pc EXCEPT ![p] = "storeSuccess"]
              /\ applyResult' = [applyResult EXCEPT ![p] = "err"]
              /\ worktree' = [worktree EXCEPT ![p] = 0]
              /\ pending' = IF pushedSinceLocate THEN NoPending
                            ELSE [kind |-> "fail", commit |-> hashCommit[p],
                                  boundary |-> lfcArg[p].CommitHash]
              /\ seenPending' = [q \in Triggers |-> FALSE]
  /\ UNCHANGED <<storageVars, processGitCASGuard, envVars, lfcArg, commitHash,
                 hashCommit, outcome, verified, lfcAtAcquire, pushedSinceFinish,
                 retryOf, pushedSinceLocate>>
  /\ UNCHANGED otherVars

\* processCommit returns nil or an error
processCommit(p) ==
  /\ ~Returning
  /\ pc[p] = "applying"
  /\ \E ok \in BOOLEAN :
       IF ok
         THEN /\ pc' = [pc EXCEPT ![p] = "storeSuccess"]
              /\ applyResult' = [applyResult EXCEPT ![p] = "nil"]
              /\ worktree' = [worktree EXCEPT ![p] = cloneRepositoryAtCommit(history, hashCommit[p])]
              /\ UNCHANGED <<pending, seenPending>>
         ELSE /\ pc' = [pc EXCEPT ![p] = "storeFailed"]
              /\ applyResult' = [applyResult EXCEPT ![p] = "err"]
              /\ worktree' = [worktree EXCEPT ![p] = 0]
              /\ pending' = IF pushedSinceLocate THEN NoPending
                            ELSE [kind |-> "fail", commit |-> hashCommit[p],
                                  boundary |-> lfcArg[p].CommitHash]
              /\ seenPending' = [q \in Triggers |-> FALSE]
  /\ UNCHANGED <<storageVars, processGitCASGuard, envVars, lfcArg, commitHash,
                 hashCommit, outcome, verified, lfcAtAcquire, pushedSinceFinish,
                 retryOf, pushedSinceLocate>>
  /\ UNCHANGED otherVars

\* status "FAILED processing commit"; the error of the write is ignored
storeFailed(p) ==
  /\ ~Returning
  /\ pc[p] = "storeFailed"
  /\ \E ok \in BOOLEAN :
       processStatus' = IF ok THEN StatusFailed(commitHash[p].CommitHash)
                              ELSE processStatus
  /\ Return(p, "applyErr")
  /\ UNCHANGED <<lastFinishedCommit, lastRunTimestamp, processGitCASGuard, envVars,
                 lfcArg, commitHash, hashCommit, applyResult, worktree, ghostVars>>
  /\ UNCHANGED otherVars

\* status "Successfully processed commit"
storeSuccess(p) ==
  /\ ~Returning
  /\ pc[p] = "storeSuccess"
  /\ \E ok \in BOOLEAN :
       IF ok
         THEN /\ processStatus' = StatusSuccess(commitHash[p].CommitHash)
              /\ pc' = [pc EXCEPT ![p] = "storeLFC"]
              /\ UNCHANGED outcome
         ELSE /\ Return(p, "storageErr")
              /\ UNCHANGED processStatus
  /\ UNCHANGED <<lastFinishedCommit, lastRunTimestamp, processGitCASGuard, envVars,
                 lfcArg, commitHash, hashCommit, applyResult, worktree, ghostVars>>
  /\ UNCHANGED otherVars

\* storeLastFinishedCommit(ctx, storage, *commitHash)
storeLastFinishedCommit(p) ==
  /\ ~Returning
  /\ pc[p] = "storeLFC"
  /\ \E ok \in BOOLEAN :
       IF ok
         THEN /\ lastFinishedCommit' = commitHash[p]
              /\ pushedSinceFinish' = FALSE
              /\ Return(p, "ok")
         ELSE /\ Return(p, "storageErr")
              /\ UNCHANGED <<lastFinishedCommit, pushedSinceFinish>>
  /\ UNCHANGED <<lastRunTimestamp, processStatus, processGitCASGuard, envVars,
                 lfcArg, commitHash, hashCommit, applyResult, worktree, verified,
                 lfcAtAcquire, pending, seenPending, retryOf,
                 pushedSinceLocate>>
  /\ UNCHANGED otherVars

\* the guard reset at the end of the success path only, not deferred
processGitInternalExitNoDefer(p) ==
  /\ ~Returning
  /\ pc[p] = "exit"
  /\ processGitCASGuard' = IF outcome[p] \in {"ok", "noCommit", "notExceeded"}
                            THEN 0 ELSE processGitCASGuard
  /\ pc' = [pc EXCEPT ![p] = "idle"]
  /\ lfcArg' = [lfcArg EXCEPT ![p] = NoCommit]
  /\ commitHash' = [commitHash EXCEPT ![p] = NoCommit]
  /\ hashCommit' = [hashCommit EXCEPT ![p] = 0]
  /\ applyResult' = [applyResult EXCEPT ![p] = "none"]
  /\ worktree' = [worktree EXCEPT ![p] = 0]
  /\ outcome' = [outcome EXCEPT ![p] = "none"]
  /\ lfcAtAcquire' = [lfcAtAcquire EXCEPT ![p] = NoCommit]
  /\ seenPending' = [seenPending EXCEPT ![p] = FALSE]
  /\ retryOf' = [retryOf EXCEPT ![p] = NoPending]
  /\ pushedSinceLocate' = FALSE
  /\ verified' = {}
  /\ UNCHANGED <<storageVars, envVars, pushedSinceFinish, pending>>
  /\ UNCHANGED otherVars

\* defer atomic.StoreUint32(b.processGitCASGuard, 0): the goroutine ends
processGitInternalExit(p) ==
  /\ ~Returning
  /\ pc[p] = "exit"
  /\ processGitCASGuard' = 0
  /\ pc' = [pc EXCEPT ![p] = "idle"]
  /\ lfcArg' = [lfcArg EXCEPT ![p] = NoCommit]
  /\ commitHash' = [commitHash EXCEPT ![p] = NoCommit]
  /\ hashCommit' = [hashCommit EXCEPT ![p] = 0]
  /\ applyResult' = [applyResult EXCEPT ![p] = "none"]
  /\ worktree' = [worktree EXCEPT ![p] = 0]
  /\ outcome' = [outcome EXCEPT ![p] = "none"]
  /\ lfcAtAcquire' = [lfcAtAcquire EXCEPT ![p] = NoCommit]
  /\ seenPending' = [seenPending EXCEPT ![p] = FALSE]
  /\ retryOf' = [retryOf EXCEPT ![p] = NoPending]
  /\ pushedSinceLocate' = FALSE
  /\ verified' = {}
  /\ UNCHANGED <<storageVars, envVars, pushedSinceFinish, pending>>
  /\ UNCHANGED otherVars

\* -------------------------------------------------------- environment
\* the wall clock advances
Tick ==
  /\ ~Returning
  /\ now < MaxTime
  /\ now' = now + 1
  /\ UNCHANGED <<storageVars, processGitCASGuard, config, history, localVars,
                 ghostVars>>
  /\ UNCHANGED otherVars

\* the commits a push can bring: unsigned, or signed by a trusted key and
\* dated before the time the model starts at (StartTime) or after it
PushChoices ==
  {[CommitDate |-> StartTime - 1, Signatures |-> <<>>],
   [CommitDate |-> StartTime - 1, Signatures |-> <<"K1">>],
   [CommitDate |-> StartTime + 1, Signatures |-> <<"K1">>]}

\* a commit is pushed on top of the branch
Push ==
  /\ ~Returning
  /\ Len(history) < MaxCommits
  /\ \E c \in PushChoices : history' = Append(history, c)
  /\ pending' = NoPending
  /\ seenPending' = [q \in Triggers |-> FALSE]
  /\ pushedSinceFinish' = TRUE
  /\ pushedSinceLocate' = \E p \in Triggers : AfterLocateBeforeStore(p)
  /\ UNCHANGED <<storageVars, processGitCASGuard, config, now, localVars,
                 verified, lfcAtAcquire, retryOf>>
  /\ UNCHANGED otherVars

\* the process dies and is started again: memory is lost, storage is kept
Crash ==
  /\ ~Returning
  /\ \E p \in Triggers : pc[p] # "idle"
  /\ processGitCASGuard' = 0
  /\ pc' = [p \in Triggers |-> "idle"]
  /\ lfcArg' = [p \in Triggers |-> NoCommit]
  /\ commitHash' = [p \in Triggers |-> NoCommit]
  /\ hashCommit' = [p \in Triggers |-> 0]
  /\ applyResult' = [p \in Triggers |-> "none"]
  /\ worktree' = [p \in Triggers |-> 0]
  /\ outcome' = [p \in Triggers |-> "none"]
  /\ verified' = {}
  /\ lfcAtAcquire' = [p \in Triggers |-> NoCommit]
  /\ seenPending' = [p \in Triggers |-> FALSE]
  /\ retryOf' = [p \in Triggers |-> NoPending]
  /\ pushedSinceLocate' = FALSE
  /\ pending' = IF ~pushedSinceLocate /\ \E p \in Triggers : AfterLocateBeforeStore(p)
                  THEN LET p == CHOOSE q \in Triggers : AfterLocateBeforeStore(q) IN
                       [kind |-> "crash", commit |-> commitHash[p].CommitHash,
                        boundary |-> lfcArg[p].CommitHash]
                  ELSE pending
  /\ UNCHANGED <<storageVars, config, history, now, pushedSinceFinish>>
  /\ UNCHANGED otherVars

Next ==
  \/ \E p \in Triggers : PeriodicTaskRead(p)
  \/ \E p \in Triggers : PeriodicTaskCAS(p)
  \/ \E p \in Triggers : PeriodicTaskReturn(p)
  \/ \E p \in Triggers : processGitBegin(p)
  \/ \E p \in Triggers : updateLastRunTimeStamp(p)
  \/ \E p \in Triggers : Locate(p)
  \/ \E p \in Triggers : storeNoNew(p)
  \/ \E p \in Triggers : storeProcessing(p)
  \/ \E p \in Triggers : processCommit(p)
  \/ \E p \in Triggers : storeFailed(p)
  \/ \E p \in Triggers : storeSuccess(p)
  \/ \E p \in Triggers : storeLastFinishedCommit(p)
  \/ \E p \in Triggers : processGitInternalExit(p)
  \/ Tick
  \/ Push
  \/ Crash

Spec == Init /\ [][Next]_vars

\* ------------------------------------------- the Locator on any history
\* commits of the histories the Locator is run on
LocateCommits == [CommitDate : 0..MaxDate, Signatures : {<<>>, <<"K1">>}]

Histories == UNION {[1..k -> LocateCommits] : k \in 0..MaxHistory}

\* boundaries: none, a commit of the history, a hash the history does not hold
Boundaries == {CommitInfo(h, d) : h \in 0..(MaxHistory + 1), d \in 0..MaxDate}

\* trigger 1 holds the guard and is about to call the Locator
InitLocate ==
  /\ lastFinishedCommit = NoCommit
  /\ lastRunTimestamp = 0
  /\ processStatus = StatusNone
  /\ processGitCASGuard = 1
  /\ config = [IsSet |-> TRUE, Quorum |-> 1]
  /\ history \in Histories
  /\ now \in 0..MaxDate
  /\ pc = [p \in Triggers |-> IF p = 1 THEN "locate" ELSE "idle"]
  /\ \E b \in Boundaries : lfcArg = [p \in Triggers |-> IF p = 1 THEN b ELSE NoCommit]
  /\ commitHash = [p \in Triggers |-> NoCommit]
  /\ hashCommit = [p \in Triggers |-> 0]
  /\ applyResult = [p \in Triggers |-> "none"]
  /\ worktree = [p \in Triggers |-> 0]
  /\ outcome = [p \in Triggers |-> "none"]
  /\ verified = {}
  /\ lfcAtAcquire = [p \in Triggers |-> NoCommit]
  /\ pushedSinceFinish = FALSE
  /\ pending = NoPending
  /\ seenPending = [p \in Triggers |-> FALSE]
  /\ retryOf = [p \in Triggers |-> NoPending]
  /\ pushedSinceLocate = FALSE
  /\ NoApplier
  /\ NoToken
  /\ NoQueue

NextLocate == \E p \in Triggers : Locate(p)

SpecLocate == InitLocate /\ [][NextLocate]_vars

\* ------------------------------------------------------------ properties
\* the Locator has returned to processGit, which has not gone on yet
Located(p) == pc[p] \in {"storeNoNew", "storeProcessing"}

\* processCommit was entered by the attempt of trigger p
Applied(p) == hashCommit[p] # 0

AnyInBody == \E p \in Triggers : InBody(p)

\* C1: processCommit is only entered with the commit the Locator returned in
\* the same attempt, a commit that has the quorum, is not dated after the
\* current time nor before the boundary's date; last_finished_commit never
\* holds a commit that lacks the quorum.
C1_ApplierGetsLocatedCommit ==
  /\ \A p \in Triggers :
       Applied(p) =>
         /\ hashCommit[p] = commitHash[p].CommitHash
         /\ hashCommit[p] \in 1..Len(history)
         /\ VerifyCommitSignatures(history, hashCommit[p], config.Quorum)
         /\ history[hashCommit[p]].CommitDate <= now
         /\ lfcArg[p] # NoCommit =>
              history[hashCommit[p]].CommitDate >= lfcArg[p].CommitDate
  /\ lastFinishedCommit # NoCommit =>
       /\ lastFinishedCommit.CommitHash \in 1..Len(history)
       /\ VerifyCommitSignatures(history, lastFinishedCommit.CommitHash, config.Quorum)

\* processCommit is entered with a commit below the tip: the Locator passed
\* over a commit without the quorum that was there when it cloned
C1_Witness ==
  \E p \in Triggers :
    /\ pc[p] = "applying"
    /\ ~pushedSinceLocate
    /\ \E i \in 1..Len(history) :
         /\ i > hashCommit[p]
         /\ ~VerifyCommitSignatures(history, i, config.Quorum)

\* C2: last_finished_commit changes only in a step of an attempt whose
\* processCommit call returned nil, and to the hash passed to that call; an
\* attempt whose processCommit call returned an error ends with
\* last_finished_commit as it was when the attempt began.
C2_CheckpointOnlyOnSuccess ==
  [][/\ lastFinishedCommit' # lastFinishedCommit =>
          \E p \in Triggers :
            /\ applyResult[p] = "nil"
            /\ pc[p] # "applying"
            /\ lastFinishedCommit'.CommitHash = hashCommit[p]
     /\ \A p \in Triggers :
          (pc'[p] = "exit" /\ applyResult'[p] = "err") =>
            lastFinishedCommit' = lfcAtAcquire'[p]]_vars

\* an attempt whose Applier failed is over, after an earlier one succeeded
C2_Witness ==
  /\ lastFinishedCommit # NoCommit
  /\ \E p \in Triggers : pc[p] = "exit" /\ applyResult[p] = "err"

\* C3: at most one reconciliation body is in flight, and only while the
\* guard is 1.
C3_GuardExclusivity ==
  /\ Cardinality({p \in Triggers : InBody(p)}) <= 1
  /\ AnyInBody => processGitCASGuard = 1

\* a trigger arrives at the CAS while a body is at the Applier
C3_Witness ==
  \E p, q \in Triggers : pc[p] = "applying" /\ pc[q] = "cas"

\* C4: a trigger that finds the guard busy returns nil, starts no body, calls
\* neither the Locator nor the Applier and writes none of the checkpoint keys.
C4_BusyTriggerIsNoOp ==
  [][\A p \in Triggers :
       (pc[p] = "cas" /\ processGitCASGuard = 1 /\ pc'[p] \notin {"cas", "idle"}) =>
         /\ pc'[p] = "retNil"
         /\ processGitCASGuard' = processGitCASGuard
         /\ UNCHANGED storageVars
         /\ commitHash'[p] = NoCommit
         /\ hashCommit'[p] = 0
         /\ verified' = verified]_vars

\* a trigger has returned from a busy guard while the body is still running
C4_Witness ==
  \E p, q \in Triggers : pc[p] = "retNil" /\ pc[q] = "applying"

\* C5: a commit that is recorded as last_finished_commit is not handed to
\* processCommit again as long as nothing was pushed since it was recorded.
C5_NoDoubleApply ==
  \A p \in Triggers :
    pc[p] = "applying" =>
      ~(hashCommit[p] = lastFinishedCommit.CommitHash /\ ~pushedSinceFinish)

\* C6: the guard is busy only while a body is in flight: every body that
\* has ended, by whatever route, has reset it.
C6_GuardReleasedOnEveryExit ==
  processGitCASGuard = 1 => AnyInBody

\* attempts have ended (one of them on an Applier error) and the guard is free
C6_Witness ==
  /\ \A p \in Triggers : pc[p] = "idle"
  /\ processGitCASGuard = 0
  /\ processStatus = StatusFailed(HeadCommit(history))

\* C7: the attempt that follows an attempt whose Applier failed on C (nothing
\* pushed in between) calls the Locator with the same boundary, gets C, hands
\* C to processCommit and, when it ends well, last_finished_commit is C.
C7_RetrySameCommit ==
  \A p \in Triggers :
    retryOf[p].kind = "fail" =>
      /\ lfcArg[p].CommitHash = retryOf[p].boundary
      /\ commitHash[p].CommitHash = retryOf[p].commit
      /\ Applied(p) => hashCommit[p] = retryOf[p].commit
      /\ outcome[p] = "ok" => lastFinishedCommit.CommitHash = retryOf[p].commit

\* C8: while an attempt is between the Locator's return and the write of
\* last_finished_commit the key holds what it held when the attempt began;
\* after a crash there the guard is free, and the attempt that follows
\* (nothing pushed in between) calls the Locator with the same boundary,
\* gets C and hands C to processCommit.
C8_CrashRetry ==
  /\ \A p \in Triggers :
       AfterLocateBeforeStore(p) => lastFinishedCommit = lfcAtAcquire[p]
  /\ (pending.kind = "crash" /\ ~AnyInBody) => processGitCASGuard = 0
  /\ \A p \in Triggers :
       retryOf[p].kind = "crash" =>
         /\ lfcArg[p].CommitHash = retryOf[p].boundary
         /\ commitHash[p].CommitHash = retryOf[p].commit
         /\ Applied(p) => hashCommit[p] = retryOf[p].commit

\* C9: with a boundary that is in the history, the Locator returns nothing
\* or a commit nearer the tip than the boundary; with the boundary at the
\* tip it returns nothing and verifies no commit.
C9_BoundaryExclusive ==
  \A p \in Triggers :
    Located(p) =>
      /\ lfcArg[p].CommitHash \in 1..Len(history) =>
           \/ commitHash[p] = NoCommit
           \/ commitHash[p].CommitHash > lfcArg[p].CommitHash
      /\ (lfcArg[p].CommitHash # 0 /\ lfcArg[p].CommitHash = HeadCommit(history)) =>
           /\ commitHash[p] = NoCommit
           /\ verified = {}

\* the boundary is the tip, which has the quorum and valid dates: nothing
\* is returned
C9_Witness ==
  \E p \in Triggers :
    /\ pc[p] = "storeNoNew"
    /\ Len(history) = MaxHistory
    /\ lfcArg[p].CommitHash = HeadCommit(history)
    /\ VerifyCommitSignatures(history, HeadCommit(history), config.Quorum)
    /\ history[HeadCommit(history)].CommitDate <= now
    /\ history[HeadCommit(history)].CommitDate >= lfcArg[p].CommitDate

\* the commits the Locator may return: nearer the tip than the boundary (when
\* the history holds it), with the quorum, not dated after the current time
\* nor before the last finished commit's date
Qualifying(repo, lfc, currentTime, quorum) ==
  {i \in 1..Len(repo) :
     /\ lfc.CommitHash \in 1..Len(repo) => i > lfc.CommitHash
     /\ Cardinality(DistinctTrustedSigners(repo[i].Signatures)) >= quorum
     /\ ~(repo[i].CommitDate > currentTime)
     /\ lfc = NoCommit \/ ~(repo[i].CommitDate < lfc.CommitDate)}

\* the qualifying commit nearest the tip, if any
FirstQualifying(repo, lfc, currentTime, quorum) ==
  LET Q == Qualifying(repo, lfc, currentTime, quorum) IN
  IF Q = {} THEN NoCommit
  ELSE LET i == CHOOSE x \in Q : \A y \in Q : y <= x IN
       CommitInfo(i, repo[i].CommitDate)

\* C10: the Locator returns the qualifying commit nearest the tip, nothing
\* when there is none; commits that fail a check are passed over.
C10_LocatorMatchesReference ==
  \A p \in Triggers :
    Located(p) =>
      commitHash[p] = FirstQualifying(history, lfcArg[p], now, config.Quorum)

\* a commit below the tip and above the boundary is returned: the tip was
\* passed over
C10_Witness ==
  \E p \in Triggers :
    /\ pc[p] = "storeProcessing"
    /\ lfcArg[p].CommitHash \in 1..Len(history)
    /\ commitHash[p].CommitHash > lfcArg[p].CommitHash
    /\ commitHash[p].CommitHash < HeadCommit(history)


\* ------------------------------- the Locator on the five-commit example
\* the history [C5,C4,C3,C2,C1]: five commits signed by a trusted key, the
\* boundary is C3; no commit above the boundary has a date that fails a check
ExampleHistories ==
  {h \in [1..5 -> [CommitDate : 0..MaxDate, Signatures : {<<"K1">>}]] :
     \A i \in 4..5 : h[i].CommitDate >= h[3].CommitDate}

\* trigger 1 holds the guard and is about to call the Locator with boundary C3
InitExample ==
  /\ lastFinishedCommit = NoCommit
  /\ lastRunTimestamp = 0
  /\ processStatus = StatusNone
  /\ processGitCASGuard = 1
  /\ config = [IsSet |-> TRUE, Quorum |-> 1]
  /\ history \in ExampleHistories
  /\ now = MaxDate
  /\ pc = [p \in Triggers |-> IF p = 1 THEN "locate" ELSE "idle"]
  /\ lfcArg = [p \in Triggers |->
                 IF p = 1 THEN CommitInfo(3, history[3].CommitDate) ELSE NoCommit]
  /\ commitHash = [p \in Triggers |-> NoCommit]
  /\ hashCommit = [p \in Triggers |-> 0]
  /\ applyResult = [p \in Triggers |-> "none"]
  /\ worktree = [p \in Triggers |-> 0]
  /\ outcome = [p \in Triggers |-> "none"]
  /\ verified = {}
  /\ lfcAtAcquire = [p \in Triggers |-> NoCommit]
  /\ pushedSinceFinish = FALSE
  /\ pending = NoPending
  /\ seenPending = [p \in Triggers |-> FALSE]
  /\ retryOf = [p \in Triggers |-> NoPending]
  /\ pushedSinceLocate = FALSE
  /\ NoApplier
  /\ NoToken
  /\ NoQueue

SpecExample == InitExample /\ [][NextLocate]_vars

\* C11 as stated: with history [C5,C4,C3,C2,C1], every commit with the quorum,
\* and boundary C3, the Locator returns C4.
C11_ReturnsC4 ==
  \A p \in Triggers :
    Located(p) => commitHash[p].CommitHash = 4

\* C11 amended: with history [C5,C4,C3,C2,C1], every commit with the quorum,
\* and boundary C3, the Locator returns the tip C5, the first commit of the
\* walk: not C4, not the boundary C3, nor a commit beyond it.
C11_ReturnsTip ==
  \A p \in Triggers :
    Located(p) =>
      /\ commitHash[p] = CommitInfo(5, history[5].CommitDate)
      /\ verified = {5}

\* the Locator has returned on the example, C4 being as good a commit as C5
C11_Witness ==
  \E p \in Triggers :
    /\ pc[p] = "storeProcessing"
    /\ Len(history) = 5
    /\ lfcArg[p].CommitHash = 3
    /\ history[4] = history[5]


\* ------------------------------------- the Locator on every kind of signing
\* what a commit can be signed with: nothing, a trusted key, the same key
\* twice, two trusted keys, a key that is not trusted (KU), one of each
QuorumSignatures ==
  {<<>>, <<"K1">>, <<"K1", "K1">>, <<"K1", "K2">>, <<"KU">>, <<"K1", "KU">>}

QuorumHistories ==
  UNION {[1..k -> [CommitDate : 0..MaxDate, Signatures : QuorumSignatures]] : k \in 1..2}

\* trigger 1 holds the guard and is about to call the Locator for the first
\* time (no boundary); required_number_of_verified_signatures_on_commit is 0..2
InitQuorum ==
  /\ lastFinishedCommit = NoCommit
  /\ lastRunTimestamp = 0
  /\ processStatus = StatusNone
  /\ processGitCASGuard = 1
  /\ config \in {[IsSet |-> TRUE, Quorum |-> q] : q \in 0..2}
  /\ history \in QuorumHistories
  /\ now = MaxDate
  /\ pc = [p \in Triggers |-> IF p = 1 THEN "locate" ELSE "idle"]
  /\ lfcArg = [p \in Triggers |-> NoCommit]
  /\ commitHash = [p \in Triggers |-> NoCommit]
  /\ hashCommit = [p \in Triggers |-> 0]
  /\ applyResult = [p \in Triggers |-> "none"]
  /\ worktree = [p \in Triggers |-> 0]
  /\ outcome = [p \in Triggers |-> "none"]
  /\ verified = {}
  /\ lfcAtAcquire = [p \in Triggers |-> NoCommit]
  /\ pushedSinceFinish = FALSE
  /\ pending = NoPending
  /\ seenPending = [p \in Triggers |-> FALSE]
  /\ retryOf = [p \in Triggers |-> NoPending]
  /\ pushedSinceLocate = FALSE
  /\ NoApplier
  /\ NoToken
  /\ NoQueue

SpecQuorum == InitQuorum /\ [][NextLocate]_vars

\* the trusted keys among the signers of commit i
TrustedSignersOf(i) ==
  {k \in TrustedKeys : \E j \in 1..Len(history[i].Signatures) : history[i].Signatures[j] = k}

\* C12: the tip (validly dated, no boundary) is returned exactly when the
\* trusted keys that signed it are at least as many as the quorum: signed
\* twice by K1 it fails quorum 2, signed by K1 and K2 it passes quorum 2, and
\* with quorum 0 it is returned whatever its signatures, unsigned included.
C12_QuorumByDistinctKey ==
  \A p \in Triggers :
    Located(p) =>
      LET tip == HeadCommit(history)
          returned == commitHash[p].CommitHash = tip IN
      /\ returned <=> Cardinality(TrustedSignersOf(tip)) >= config.Quorum
      /\ (config.Quorum = 2 /\ history[tip].Signatures = <<"K1", "K1">>) => ~returned
      /\ (config.Quorum = 2 /\ history[tip].Signatures = <<"K1", "K2">>) => returned
      /\ config.Quorum = 0 => returned

\* with quorum 2 a tip signed twice by K1 was passed over for the commit
\* below it, signed by K1 and K2
C12_Witness ==
  \E p \in Triggers :
    /\ pc[p] = "storeProcessing"
    /\ config.Quorum = 2
    /\ Len(history) = 2
    /\ history[2].Signatures = <<"K1", "K1">>
    /\ history[1].Signatures = <<"K1", "K2">>
    /\ commitHash[p].CommitHash = 1


\* C13: the commit the Locator returns is not dated after the time of the
\* walk nor before the last finished commit's date, and a tip with the quorum
\* that is dated exactly at the time of the walk, or exactly at the last
\* finished commit's date, is returned.
C13_DateBounds ==
  \A p \in Triggers :
    Located(p) =>
      LET tip == HeadCommit(history) IN
      /\ commitHash[p] # NoCommit =>
           /\ history[commitHash[p].CommitHash].CommitDate <= now
           /\ history[commitHash[p].CommitHash].CommitDate >= lfcArg[p].CommitDate
           /\ commitHash[p].CommitDate = history[commitHash[p].CommitHash].CommitDate
      /\ ( /\ lfcArg[p].CommitHash # tip
           /\ VerifyCommitSignatures(history, tip, config.Quorum)
           /\ \/ history[tip].CommitDate = now /\ history[tip].CommitDate >= lfcArg[p].CommitDate
              \/ history[tip].CommitDate = lfcArg[p].CommitDate /\ history[tip].CommitDate <= now )
         => commitHash[p].CommitHash = tip

\* a tip with the quorum but dated after the time of the walk was passed
\* over, and so was a commit dated before the last finished commit; the commit
\* returned is dated at the time of the walk
C13_Witness ==
  \E p \in Triggers :
    /\ pc[p] = "storeProcessing"
    /\ Len(history) = 3
    /\ \A i \in 1..3 : VerifyCommitSignatures(history, i, config.Quorum)
    /\ history[3].CommitDate > now
    /\ history[2].CommitDate < lfcArg[p].CommitDate
    /\ commitHash[p].CommitHash = 1
    /\ history[1].CommitDate = now


\* C14: last_finished_commit never moves backwards: a new value is a commit
\* at or after the previous one in the history, dated no earlier than it.
C14_MonotonicCheckpoint ==
  [][lastFinishedCommit' # lastFinishedCommit =>
       /\ lastFinishedCommit'.CommitHash >= lastFinishedCommit.CommitHash
       /\ lastFinishedCommit'.CommitDate >= lastFinishedCommit.CommitDate]_vars


\* C15: an attempt goes on to the Locator only if strictly more than
\* git_poll_period has passed since last_periodic_run_timestamp. An attempt
\* that runs its check within the interval ends as "not exceeded" and never
\* reaches the Locator; one that runs it after the interval, with storage
\* answering, goes on, and the step into the Locator is the timestamp write
\* made while the stored value is still older than the interval.
C15_LocatorOnlyAfterInterval ==
  [][\A p \in Triggers :
       /\ (pc[p] = "begin" /\ now - lastRunTimestamp <= GitPollPeriod)
            => pc'[p] \notin {"updateTs", "locate"}
       /\ (pc[p] = "begin" /\ pc'[p] = "exit" /\ outcome'[p] = "notExceeded")
            => now - lastRunTimestamp <= GitPollPeriod
       /\ (pc[p] # "locate" /\ pc'[p] = "locate")
            => /\ pc[p] = "updateTs"
               /\ now - lastRunTimestamp > GitPollPeriod
               /\ lastRunTimestamp' = now]_vars

\* a trigger inside the interval opened by an earlier attempt's Locator call
\* ends without calling the Locator
C15_Witness ==
  \E p \in Triggers :
    /\ pc[p] = "exit"
    /\ outcome[p] = "notExceeded"
    /\ lastRunTimestamp = now
    /\ lastRunTimestamp > StartTime


\* the attempt is past the interval check and the timestamp write: it is at
\* the Locator, in the body after it, or has ended with one of the outcomes
\* that follow a Locator call
AfterTimestamp(p) ==
  \/ pc[p] = "locate"
  \/ pc[p] = "storeNoNew"
  \/ AfterLocateBeforeStore(p)
  \/ pc[p] = "exit" /\ outcome[p] \in {"noCommit", "locateErr", "applyErr", "ok"}

\* C16: an attempt that passed the interval check has written
\* last_periodic_run_timestamp before it calls the Locator, and the value it
\* wrote stays in storage through every outcome (nothing found, Locator
\* error, Applier failure, Applier success) until the attempt ends, so the
\* next attempt's interval check is made against this attempt's time.
C16_TimestampPersisted ==
  [][\A p \in Triggers :
       /\ (~AfterTimestamp(p) /\ AfterTimestamp(p)')
            => /\ pc[p] = "updateTs"
               /\ lastRunTimestamp' = now
       /\ AfterTimestamp(p)
            => /\ lastRunTimestamp' = lastRunTimestamp
               /\ lastRunTimestamp \in StartTime..now
       /\ (pc[p] # "exit" /\ pc'[p] = "exit"
             /\ outcome'[p] \in {"noCommit", "locateErr", "applyErr", "ok"})
            => AfterTimestamp(p)]_vars

\* an attempt ended in an Applier failure with its own timestamp in storage
C16_Witness ==
  \E p \in Triggers :
    /\ pc[p] = "exit"
    /\ outcome[p] = "applyErr"
    /\ lastRunTimestamp = now
    /\ lastFinishedCommit # NoCommit


\* C17: an attempt that took the guard and ended in a configuration error,
\* a Locator (clone) error or an Applier error has a process_status that
\* describes a failure when it is about to release the guard.
C17_FailureStatus ==
  \A p \in Triggers :
    (pc[p] = "exit" /\ outcome[p] \in {"configErr", "locateErr", "applyErr"})
      => processStatus[1] = "FAILED processing commit"


\* ------------------------------------------- configuration deleted later
\* The plugin has run before: one signed commit is applied and recorded, the
\* three keys hold what that attempt left, the guard is free. The operator
\* has then kept the git repository configuration or deleted it
\* (pathConfigureDelete), and the triggers go on.
InitConfig ==
  /\ history = <<[CommitDate |-> StartTime - 1, Signatures |-> <<"K1">>]>>
  /\ lastFinishedCommit = CommitInfo(1, StartTime - 1)
  /\ lastRunTimestamp = StartTime
  /\ processStatus = StatusSuccess(1)
  /\ processGitCASGuard = 0
  /\ config \in {[IsSet |-> TRUE, Quorum |-> 1], [IsSet |-> FALSE, Quorum |-> 0]}
  /\ now = StartTime
  /\ pc = [p \in Triggers |-> "idle"]
  /\ lfcArg = [p \in Triggers |-> NoCommit]
  /\ commitHash = [p \in Triggers |-> NoCommit]
  /\ hashCommit = [p \in Triggers |-> 0]
  /\ applyResult = [p \in Triggers |-> "none"]
  /\ worktree = [p \in Triggers |-> 0]
  /\ outcome = [p \in Triggers |-> "none"]
  /\ verified = {}
  /\ lfcAtAcquire = [p \in Triggers |-> NoCommit]
  /\ pushedSinceFinish = FALSE
  /\ pending = NoPending
  /\ seenPending = [p \in Triggers |-> FALSE]
  /\ retryOf = [p \in Triggers |-> NoPending]
  /\ pushedSinceLocate = FALSE
  /\ NoApplier
  /\ NoToken
  /\ NoQueue

SpecConfig == InitConfig /\ [][Next]_vars

\* C18: with the git repository configuration not set, an attempt that took
\* the guard goes from GetConfig straight to its end with the configuration
\* error - never to the timestamp write, the Locator or the Applier - while
\* last_finished_commit, last_periodic_run_timestamp and process_status stay
\* as they are, and its last step frees the guard.
C18_ConfigNotSetAborts ==
  [][\A p \in Triggers :
       /\ (pc[p] = "begin" /\ ~config.IsSet)
            => /\ UNCHANGED storageVars
               /\ pc'[p] \in {"begin", "exit", "idle"}
               /\ pc'[p] = "exit" => outcome'[p] = "configErr"
       /\ (pc[p] = "exit" /\ outcome[p] = "configErr")
            => /\ UNCHANGED storageVars
               /\ pc'[p] \in {"exit", "idle"}
               /\ pc'[p] = "idle" => processGitCASGuard' = 0]_vars

\* an attempt has aborted on the configuration error with the three keys
\* holding what an earlier attempt left
C18_Witness ==
  \E p \in Triggers :
    /\ ~config.IsSet
    /\ pc[p] = "exit"
    /\ outcome[p] = "configErr"
    /\ processGitCASGuard = 1
    /\ lastFinishedCommit = CommitInfo(1, StartTime - 1)
    /\ lastRunTimestamp = StartTime
    /\ processStatus = StatusSuccess(1)


\* C19: the boundary an attempt hands to the Locator is the value
\* last_finished_commit had when that attempt took the guard.
C19_BoundaryReadUnderGuard ==
  \A p \in Triggers :
    pc[p] = "locate" => lfcArg[p] = lfcAtAcquire[p]


\* ------------------------------------------- the policy Applier variant
\* processCommit of policy.go: policies and auth roles are applied, and the
\* function's last statement is "return storeLastFinishedCommit(...)": on
\* success the Applier itself writes last_finished_commit, and a failure of
\* that write is the Applier's error
processCommitPolicy(p) ==
  /\ ~Returning
  /\ pc[p] = "applying"
  /\ \E applied \in BOOLEAN, stored \in BOOLEAN :
       IF applied /\ stored
         THEN /\ lastFinishedCommit' = commitHash[p]
              /\ pushedSinceFinish' = FALSE
              /\ pc' = [pc EXCEPT ![p] = "storeSuccess"]
              /\ applyResult' = [applyResult EXCEPT ![p] = "nil"]
              /\ worktree' = [worktree EXCEPT ![p] = cloneRepositoryAtCommit(history, hashCommit[p])]
              /\ UNCHANGED <<pending, seenPending>>
         ELSE /\ pc' = [pc EXCEPT ![p] = "storeFailed"]
              /\ applyResult' = [applyResult EXCEPT ![p] = "err"]
              /\ worktree' = [worktree EXCEPT ![p] = 0]
              /\ pending' = IF pushedSinceLocate THEN NoPending
                            ELSE [kind |-> "fail", commit |-> hashCommit[p],
                                  boundary |-> lfcArg[p].CommitHash]
              /\ seenPending' = [q \in Triggers |-> FALSE]
              /\ UNCHANGED <<lastFinishedCommit, pushedSinceFinish>>
  /\ UNCHANGED <<lastRunTimestamp, processStatus, processGitCASGuard, envVars,
                 lfcArg, commitHash, hashCommit, outcome, verified, lfcAtAcquire,
                 retryOf, pushedSinceLocate>>
  /\ UNCHANGED otherVars

NextPolicy ==
  \/ \E p \in Triggers : PeriodicTaskRead(p)
  \/ \E p \in Triggers : PeriodicTaskCAS(p)
  \/ \E p \in Triggers : PeriodicTaskReturn(p)
  \/ \E p \in Triggers : processGitBegin(p)
  \/ \E p \in Triggers : updateLastRunTimeStamp(p)
  \/ \E p \in Triggers : Locate(p)
  \/ \E p \in Triggers : storeNoNew(p)
  \/ \E p \in Triggers : storeProcessing(p)
  \/ \E p \in Triggers : processCommitPolicy(p)
  \/ \E p \in Triggers : storeFailed(p)
  \/ \E p \in Triggers : storeSuccess(p)
  \/ \E p \in Triggers : storeLastFinishedCommit(p)
  \/ \E p \in Triggers : processGitInternalExit(p)
  \/ Tick
  \/ Push
  \/ Crash

SpecPolicy == Init /\ [][NextPolicy]_vars

\* C20: last_finished_commit, last_periodic_run_timestamp and process_status
\* do not change in a step of the Locator or of the Applier.
C20_OnlyCoordinatorWrites ==
  [][\A p \in Triggers :
       (pc[p] \in {"locate", "applying"} /\ pc'[p] # pc[p])
         => UNCHANGED storageVars]_vars


\* C21: the commit checked out in the Applier's clone is the commit the
\* Locator returned, whatever was pushed in between, and the value an attempt
\* has recorded as last_finished_commit is that commit.
C21_AppliedIsLocated ==
  \A p \in Triggers :
    /\ (pc[p] \in {"storeSuccess", "storeLFC"} \/ (pc[p] = "exit" /\ outcome[p] = "ok"))
         => /\ worktree[p] = commitHash[p].CommitHash
            /\ worktree[p] # 0
    /\ (pc[p] = "exit" /\ outcome[p] = "ok")
         => /\ lastFinishedCommit = commitHash[p]
            /\ lastFinishedCommit.CommitHash = worktree[p]

\* the tip moved after the Locator returned; the attempt applied and
\* recorded the located commit, which is not the tip
C21_Witness ==
  \E p \in Triggers :
    /\ pc[p] = "exit"
    /\ outcome[p] = "ok"
    /\ pushedSinceLocate
    /\ lastFinishedCommit.CommitHash = worktree[p]
    /\ worktree[p] # HeadCommit(history)
    /\ VerifyCommitSignatures(history, HeadCommit(history), config.Quorum)
    /\ history[HeadCommit(history)].CommitDate <= now


\* ------------------------------------- the policy Applier, push by push
\* contents a file or a Vault entry can have; 0 stands for "no such file"
MaxContent == 2

\* policies/<name>.hcl and auth/<method>/role/<name>.json of the worktree
PolicyNames == {"policies/a", "policies/b"}
RoleNames == {"auth/m/role/r"}
ArtifactNames == PolicyNames \cup RoleNames

\* readPolicyFiles / readAuthRoles: the files the commit has
readPolicyFiles == {n \in PolicyNames : files[n] # 0}
readAuthRoles == {n \in RoleNames : files[n] # 0}

\* the request adds an entry next to the one already there
VaultPutAppend(store, n, c) == store \cup {<<n, c>>}

\* PUT /v1/sys/policies/acl/<name>, PUT /v1/auth/<method>/role/<name>:
\* the entry of that name is replaced
VaultPut(store, n, c) == {e \in store : e[1] # n} \cup {<<n, c>>}

\* the Vault holds entries from earlier commits; processCommit was just
\* called for commit 1
InitApply ==
  /\ history = <<[CommitDate |-> StartTime - 1, Signatures |-> <<"K1">>]>>
  /\ lastFinishedCommit = NoCommit
  /\ lastRunTimestamp = StartTime
  /\ processStatus = StatusProcessing(1)
  /\ processGitCASGuard = 1
  /\ config = [IsSet |-> TRUE, Quorum |-> 1]
  /\ now = StartTime
  /\ pc = [p \in Triggers |-> IF p = 1 THEN "applying" ELSE "idle"]
  /\ lfcArg = [p \in Triggers |-> NoCommit]
  /\ commitHash = [p \in Triggers |-> IF p = 1 THEN CommitInfo(1, StartTime - 1) ELSE NoCommit]
  /\ hashCommit = [p \in Triggers |-> IF p = 1 THEN 1 ELSE 0]
  /\ applyResult = [p \in Triggers |-> "none"]
  /\ worktree = [p \in Triggers |-> 0]
  /\ outcome = [p \in Triggers |-> "none"]
  /\ verified = {}
  /\ lfcAtAcquire = [p \in Triggers |-> NoCommit]
  /\ pushedSinceFinish = FALSE
  /\ pending = NoPending
  /\ seenPending = [p \in Triggers |-> FALSE]
  /\ retryOf = [p \in Triggers |-> NoPending]
  /\ pushedSinceLocate = FALSE
  /\ files \in [ArtifactNames -> 0..MaxContent]
  /\ \E old \in [ArtifactNames -> 0..1] :
       vault = {<<n, old[n]>> : n \in {m \in ArtifactNames : old[m] # 0}}
  /\ pushed = {}
  /\ failedPartway = FALSE
  /\ tfState = 0
  /\ tfFile = 0
  /\ tfStage = "none"
  /\ tfErr = "none"
  /\ NoToken
  /\ NoQueue

\* processCommit returns an error: nothing is stored by it
processCommitFails(p) ==
  /\ pc' = [pc EXCEPT ![p] = "storeFailed"]
  /\ applyResult' = [applyResult EXCEPT ![p] = "err"]
  /\ failedPartway' = (failedPartway \/ pushed # {})
  /\ UNCHANGED <<storageVars, worktree>>

\* one turn of a loop over the names in todo: the request for one of them is
\* sent; it is answered 2xx, or it fails, having reached Vault or not
SendOne(p, todo) ==
  \E n \in todo \ pushed :
    \E ok \in BOOLEAN, landed \in BOOLEAN :
      IF ok
        THEN /\ vault' = VaultPut(vault, n, files[n])
             /\ pushed' = pushed \cup {n}
             /\ UNCHANGED <<storageVars, pc, applyResult, worktree, failedPartway>>
        ELSE /\ vault' = IF landed THEN VaultPut(vault, n, files[n]) ELSE vault
             /\ UNCHANGED pushed
             /\ processCommitFails(p)

\* applyPoliciesToVault: range over the map of policies, in any order
applyPoliciesToVault(p) ==
  /\ pc[p] = "applying"
  /\ SendOne(p, readPolicyFiles)
  /\ UNCHANGED <<processGitCASGuard, envVars, lfcArg, commitHash, hashCommit,
                 outcome, ghostVars, files, terraformVars, tokenVars, queueVars>>

\* applyAuthRolesToVault: after the policies, the auth roles
applyAuthRolesToVault(p) ==
  /\ pc[p] = "applying"
  /\ readPolicyFiles \subseteq pushed
  /\ SendOne(p, readAuthRoles)
  /\ UNCHANGED <<processGitCASGuard, envVars, lfcArg, commitHash, hashCommit,
                 outcome, ghostVars, files, terraformVars, tokenVars, queueVars>>

\* everything is sent: return storeLastFinishedCommit(ctx, storage, hashCommit)
processCommitStore(p) ==
  /\ pc[p] = "applying"
  /\ readPolicyFiles \cup readAuthRoles \subseteq pushed
  /\ \E ok \in BOOLEAN :
       IF ok
         THEN /\ lastFinishedCommit' = commitHash[p]
              /\ pc' = [pc EXCEPT ![p] = "storeSuccess"]
              /\ applyResult' = [applyResult EXCEPT ![p] = "nil"]
              /\ worktree' = [worktree EXCEPT ![p] = cloneRepositoryAtCommit(history, hashCommit[p])]
              /\ UNCHANGED <<lastRunTimestamp, processStatus, failedPartway>>
         ELSE processCommitFails(p)
  /\ UNCHANGED <<processGitCASGuard, envVars, lfcArg, commitHash, hashCommit,
                 outcome, ghostVars, vault, files, pushed, terraformVars, tokenVars, queueVars>>

\* a later attempt calls processCommit for the same commit
processCommitAgain(p) ==
  /\ pc[p] = "storeFailed"
  /\ pc' = [pc EXCEPT ![p] = "applying"]
  /\ applyResult' = [applyResult EXCEPT ![p] = "none"]
  /\ pushed' = {}
  /\ UNCHANGED <<storageVars, processGitCASGuard, envVars, lfcArg, commitHash,
                 hashCommit, worktree, outcome, ghostVars, vault, files, failedPartway,
                 terraformVars, tokenVars, queueVars>>

NextApply ==
  \/ \E p \in Triggers : applyPoliciesToVault(p)
  \/ \E p \in Triggers : applyAuthRolesToVault(p)
  \/ \E p \in Triggers : processCommitStore(p)
  \/ \E p \in Triggers : processCommitAgain(p)

SpecApply == InitApply /\ [][NextApply]_vars

\* the entries Vault holds under name n
EntriesOf(store, n) == {e \in store : e[1] = n}

\* C22: a processCommit call that fails, part-way or not, returns an error
\* and leaves last_finished_commit alone; when a call for the same commit
\* succeeds, Vault holds for every file of the commit exactly one entry, with
\* the file's content, the entries of other names are what they were, and
\* last_finished_commit is that commit.
C22_RetryGivesSingleApply ==
  [][\A p \in Triggers :
       /\ (pc[p] = "applying" /\ pc'[p] = "storeFailed")
            => /\ lastFinishedCommit' = lastFinishedCommit
               /\ applyResult'[p] = "err"
       /\ (pc[p] = "applying" /\ pc'[p] = "storeSuccess")
            => /\ lastFinishedCommit' = commitHash[p]
               /\ \A n \in ArtifactNames :
                    files[n] # 0 => EntriesOf(vault', n) = {<<n, files[n]>>}
       /\ \A n \in ArtifactNames :
            /\ files[n] = 0 => EntriesOf(vault', n) = EntriesOf(vault, n)
            /\ Cardinality(EntriesOf(vault', n)) <= 1]_vars

\* a call failed after it had sent something, and a later call for the same
\* commit has succeeded
C22_Witness ==
  \E p \in Triggers :
    /\ pc[p] = "storeSuccess"
    /\ failedPartway
    /\ lastFinishedCommit = commitHash[p]
    /\ Cardinality(pushed) = 3
    /\ \E n \in ArtifactNames : <<n, 1>> \in vault /\ files[n] = 1
    /\ \E n \in ArtifactNames : <<n, 2>> \in vault


\* pathStatusRead: the two keys the status path returns
pathStatusRead == [status |-> processStatus, last_finished_commit |-> lastFinishedCommit]

\* C23: with no attempt in flight, a status "Successfully processed commit h"
\* is read together with last_finished_commit = h.
C23_StatusMatchesCheckpoint ==
  ~AnyInBody =>
    (pathStatusRead.status[1] = "Successfully processed commit"
       => pathStatusRead.last_finished_commit.CommitHash = pathStatusRead.status[2])


\* ------------------------------------------------------ the body's progress
\* a step of the goroutine processGitInternal
BodyStep ==
  \E p \in Triggers :
    \/ processGitBegin(p)
    \/ updateLastRunTimeStamp(p)
    \/ Locate(p)
    \/ storeNoNew(p)
    \/ storeProcessing(p)
    \/ processCommit(p)
    \/ storeFailed(p)
    \/ storeSuccess(p)
    \/ storeLastFinishedCommit(p)
    \/ processGitInternalExit(p)

\* a PeriodicTask call that has not started a body returns to its caller
TriggerReturns == \E p \in Triggers : PeriodicTaskReturn(p)

\* the Go scheduler runs a runnable goroutine: the body is not starved by
\* the triggers that come and go while it runs
SpecLive == InitConfig /\ [][Next]_vars /\ SF_vars(BodyStep) /\ WF_vars(TriggerReturns)

\* C24: the step in which PeriodicTask takes the guard starts the body and
\* is the call's last: nothing of the body has run in it; from then on other
\* triggers come and return while the body runs, and the body goes on to its
\* end, where the guard is reset.
C24_BodyRunsToCompletion ==
  /\ [][\A p \in Triggers :
          (pc[p] = "cas" /\ pc'[p] = "begin")
            => /\ UNCHANGED <<storageVars, commitHash, hashCommit, applyResult>>
               /\ processGitCASGuard' = 1]_vars
  /\ \A p \in Triggers : (pc[p] = "begin") ~> (pc[p] = "idle")

\* a later PeriodicTask call has come and is returning while the body an
\* earlier call started is at the Locator
C24_Witness ==
  \E p, q \in Triggers :
    /\ pc[p] = "locate"
    /\ pc[q] = "retNil"
    /\ processGitCASGuard = 1


\* --------------------------------------- the terraform Applier, step by step
\* the files of the worktree: a terraform file, and a state file the
\* repository may carry too
TfFileNames == {"main.tf", "terraform.tfstate"}

\* processGit has called processCommit for commit 1, which has cloned the
\* repository and calls ApplyTerraformFromRepo
InProcessCommit ==
  /\ history = <<[CommitDate |-> StartTime - 1, Signatures |-> <<"K1">>]>>
  /\ lastFinishedCommit = NoCommit
  /\ lastRunTimestamp = StartTime
  /\ processStatus = StatusProcessing(1)
  /\ processGitCASGuard = 1
  /\ config = [IsSet |-> TRUE, Quorum |-> 1]
  /\ now = StartTime
  /\ pc = [p \in Triggers |-> IF p = 1 THEN "applying" ELSE "idle"]
  /\ lfcArg = [p \in Triggers |-> NoCommit]
  /\ commitHash = [p \in Triggers |-> IF p = 1 THEN CommitInfo(1, StartTime - 1) ELSE NoCommit]
  /\ hashCommit = [p \in Triggers |-> IF p = 1 THEN 1 ELSE 0]
  /\ applyResult = [p \in Triggers |-> "none"]
  /\ worktree = [p \in Triggers |-> IF p = 1 THEN 1 ELSE 0]
  /\ outcome = [p \in Triggers |-> "none"]
  /\ verified = {}
  /\ lfcAtAcquire = [p \in Triggers |-> NoCommit]
  /\ pushedSinceFinish = FALSE
  /\ pending = NoPending
  /\ seenPending = [p \in Triggers |-> FALSE]
  /\ retryOf = [p \in Triggers |-> NoPending]
  /\ pushedSinceLocate = FALSE

\* the temporary directory is made and the deferred save is registered;
\* storage holds the state an earlier run left, or none
InitTerraform ==
  /\ InProcessCommit
  /\ vault = {}
  /\ pushed = {}
  /\ failedPartway = FALSE
  /\ files \in [TfFileNames -> 0..MaxContent]
  /\ tfState \in 0..MaxContent
  /\ tfFile = 0
  /\ tfStage = "start"
  /\ tfErr = "none"
  /\ NoToken
  /\ NoQueue

\* ApplyTerraformFromRepo returns: the deferred function is what is left
TfReturn(err) ==
  /\ tfStage' = "exit"
  /\ tfErr' = err

\* the rest of the state, which ApplyTerraformFromRepo does not touch
TfFrame ==
  UNCHANGED <<storageVars, processGitCASGuard, envVars, localVars, ghostVars,
              vault, files, pushed, failedPartway, tokenVars, queueVars>>

\* extractTerraformFiles: every file of the worktree is copied into the
\* directory; no file at all: return nil
extractTerraformFiles ==
  /\ tfStage = "start"
  /\ \E ok \in BOOLEAN, copied \in BOOLEAN :
       IF ~ok
         THEN /\ tfFile' = IF copied THEN files["terraform.tfstate"] ELSE 0
              /\ TfReturn("extract")
         ELSE /\ tfFile' = files["terraform.tfstate"]
              /\ IF \A n \in TfFileNames : files[n] = 0
                   THEN TfReturn("none")
                   ELSE /\ tfStage' = "extracted"
                        /\ UNCHANGED tfErr
  /\ UNCHANGED tfState
  /\ TfFrame

\* loadTerraformState: the stored state, when there is one, is written to
\* terraform.tfstate in the directory
loadTerraformState ==
  /\ tfStage = "extracted"
  /\ \E ok \in BOOLEAN :
       IF ok
         THEN /\ tfFile' = IF tfState # 0 THEN tfState ELSE tfFile
              /\ tfStage' = "loaded"
              /\ UNCHANGED tfErr
         ELSE /\ TfReturn("load")
              /\ UNCHANGED tfFile
  /\ UNCHANGED tfState
  /\ TfFrame

\* runTerraformInit
runTerraformInit ==
  /\ tfStage = "loaded"
  /\ \E ok \in BOOLEAN :
       IF ok THEN tfStage' = "inited" /\ UNCHANGED tfErr
             ELSE TfReturn("init")
  /\ UNCHANGED <<tfState, tfFile>>
  /\ TfFrame

\* runTerraformPlan
runTerraformPlan ==
  /\ tfStage = "inited"
  /\ \E ok \in BOOLEAN :
       IF ok THEN tfStage' = "planned" /\ UNCHANGED tfErr
             ELSE TfReturn("plan")
  /\ UNCHANGED <<tfState, tfFile>>
  /\ TfFrame

\* runTerraformApply: terraform writes the state it reached, also when it
\* fails after some resources were changed
runTerraformApply ==
  /\ tfStage = "planned"
  /\ \E ok \in BOOLEAN :
       IF ok
         THEN /\ tfFile' \in 1..MaxContent
              /\ TfReturn("none")
         ELSE /\ tfFile' \in {tfFile} \cup 1..MaxContent
              /\ TfReturn("apply")
  /\ UNCHANGED tfState
  /\ TfFrame

\* the state is saved only when no error is returned
saveTerraformStateOnSuccess ==
  /\ tfStage = "exit"
  /\ IF tfFile = 0 \/ tfErr # "none"
       THEN /\ tfStage' = "noStateFile"
            /\ UNCHANGED tfState
       ELSE \E ok \in BOOLEAN :
              /\ tfState' = IF ok THEN tfFile ELSE tfState
              /\ tfStage' = IF ok THEN "saved" ELSE "saveFailed"
  /\ UNCHANGED <<tfFile, tfErr>>
  /\ TfFrame

\* the deferred function: a state file that can be read and is not empty is
\* saved under terraform_state (a failure of the write is logged); the
\* directory is removed afterwards
saveTerraformState ==
  /\ tfStage = "exit"
  /\ IF tfFile = 0
       THEN /\ tfStage' = "noStateFile"
            /\ UNCHANGED tfState
       ELSE \E ok \in BOOLEAN :
              /\ tfState' = IF ok THEN tfFile ELSE tfState
              /\ tfStage' = IF ok THEN "saved" ELSE "saveFailed"
  /\ UNCHANGED <<tfFile, tfErr>>
  /\ TfFrame

NextTerraform ==
  \/ extractTerraformFiles
  \/ loadTerraformState
  \/ runTerraformInit
  \/ runTerraformPlan
  \/ runTerraformApply
  \/ saveTerraformState

SpecTerraform == InitTerraform /\ [][NextTerraform]_vars

\* C25: when terraform init is about to run the state file of the directory
\* holds the state stored under terraform_state, if there is one; init, plan
\* and apply run only after that; and when ApplyTerraformFromRepo is left, by
\* whatever return, a state file that is there is written back to storage.
C25_StateLoadedAndSaved ==
  [][/\ (tfStage = "extracted" /\ tfStage' = "loaded" /\ tfState # 0) => tfFile' = tfState
     /\ (tfStage' \in {"inited", "planned"} \/ tfErr' \in {"init", "plan", "apply"})
          => tfStage \in {"loaded", "inited", "planned", "exit"}
     /\ tfStage' = "loaded" => tfStage \in {"extracted", "loaded"}
     /\ (tfStage = "exit" /\ tfStage' # "exit")
          => /\ tfStage' = "noStateFile" => (tfFile = 0 /\ tfState' = tfState)
             /\ tfStage' = "saved" => (tfFile # 0 /\ tfState' = tfFile)
             /\ tfStage' = "saveFailed" => (tfFile # 0 /\ tfState' = tfState)
             /\ tfStage' \in {"noStateFile", "saved", "saveFailed"}]_vars

\* terraform apply failed after it had changed the state, and the state it
\* left is in storage
C25_Witness ==
  /\ tfStage = "saved"
  /\ tfErr = "apply"
  /\ tfState = tfFile
  /\ tfState = MaxContent


\* ------------------------------------------------- the Vault token check
\* 24 hours, in ticks of the clock
OneDay == 2

\* the TTLs the Vault server answers with: none, under a day, over a day
TokenTTLs == {0, OneDay - 1, OneDay + 1}

VaultTokens == {"t1", "t2"}

\* the TokenTTL LookupTokenSelf and RenewTokenSelf build from a response:
\* the TTL and the expire time now + ttl
TokenTTL(t) == [TTL |-> t, ExpireTime |-> now + t]

\* the git repository is not configured: every body ends at its first call
InitToken ==
  /\ InitConfig
  /\ ~config.IsSet

\* what the token check goroutine and the vault client paths leave alone
TokenFrame ==
  UNCHANGED <<storageVars, processGitCASGuard, envVars, localVars, ghostVars,
              applierVars, queueVars>>

\* PeriodicTask up to the CAS: start the token check goroutine, then read
\* last_finished_commit from storage
PeriodicTaskGo(p) ==
  /\ tokenPc[p] = "idle"
  /\ PeriodicTaskGet(p)
  /\ tokenPc' = [tokenPc EXCEPT ![p] = "check"]
  /\ ttl' = [ttl EXCEPT ![p] = NoTokenTTL]
  /\ tokenErr' = [tokenErr EXCEPT ![p] = "none"]
  /\ tokenLog' = [tokenLog EXCEPT ![p] = ""]
  /\ UNCHANGED <<vaultTokenTTL, vaultToken>>

\* the check returns; the goroutine logs the error, if any, and ends
TokenReturn(p, err, log) ==
  /\ tokenPc' = [tokenPc EXCEPT ![p] = "idle"]
  /\ tokenErr' = [tokenErr EXCEPT ![p] = err]
  /\ tokenLog' = [tokenLog EXCEPT ![p] = log]

\* a token with exactly 24 hours left is renewed as well
renewDueInclusive(t) == t.ExpireTime - now <= OneDay

\* remainingTime < oneDay
renewDue(t) == t.ExpireTime - now < OneDay

\* checkAndUpdateVaultTokenExpireTime up to the call of RenewTokenSelf or of
\* initializeVaultTokenTTL
checkAndUpdateVaultTokenExpireTime(p) ==
  /\ tokenPc[p] = "check"
  /\ \E ok \in BOOLEAN :
       IF ~ok \/ vaultToken = ""
         THEN /\ TokenReturn(p, "config", "Failed to check/update")
              /\ UNCHANGED ttl
         ELSE /\ ttl' = [ttl EXCEPT ![p] = vaultTokenTTL]
              /\ IF vaultTokenTTL.ExpireTime = 0
                   THEN /\ tokenPc' = [tokenPc EXCEPT ![p] = "init"]
                        /\ UNCHANGED <<tokenErr, tokenLog>>
                 ELSE IF vaultTokenTTL.TTL = 0
                   THEN TokenReturn(p, "nil", "")
                 ELSE IF vaultTokenTTL.ExpireTime < now
                   THEN TokenReturn(p, "nil", "Token has already expired")
                 ELSE IF renewDue(vaultTokenTTL)
                   THEN /\ tokenPc' = [tokenPc EXCEPT ![p] = "renew"]
                        /\ UNCHANGED <<tokenErr, tokenLog>>
                 ELSE TokenReturn(p, "nil", "Token expire time is OK")
  /\ UNCHANGED <<vaultTokenTTL, vaultToken>>
  /\ TokenFrame

\* initializeVaultTokenTTL: GetValidConfig, LookupTokenSelf, updateVaultTokenTTL
initializeVaultTokenTTL(p) ==
  /\ tokenPc[p] = "init"
  /\ \E ok \in BOOLEAN, t \in TokenTTLs :
       IF vaultToken = ""
         THEN /\ TokenReturn(p, "config", "Failed to check/update")
              /\ UNCHANGED vaultTokenTTL
       ELSE IF ~ok
         THEN /\ TokenReturn(p, "lookup", "Failed to check/update")
              /\ UNCHANGED vaultTokenTTL
       ELSE /\ vaultTokenTTL' = TokenTTL(t)
            /\ TokenReturn(p, "nil", "Initialized vault token expire time")
  /\ UNCHANGED <<vaultToken, ttl>>
  /\ TokenFrame

\* the renewal: RenewTokenSelf, and updateVaultTokenTTL when it succeeded
RenewTokenSelf(p) ==
  /\ tokenPc[p] = "renew"
  /\ \E ok \in BOOLEAN, t \in TokenTTLs :
       IF ~ok
         THEN /\ TokenReturn(p, "renew", "Failed to check/update")
              /\ UNCHANGED vaultTokenTTL
         ELSE /\ vaultTokenTTL' = TokenTTL(t)
              /\ TokenReturn(p, "nil", "Token renewed successfully")
  /\ UNCHANGED <<vaultToken, ttl>>
  /\ TokenFrame

\* configuring a token also drops the cached TokenTTL
vaultConfigureResetsCache ==
  /\ \E t \in VaultTokens :
       /\ t # vaultToken
       /\ vaultToken' = t
  /\ vaultTokenTTL' = NoTokenTTL
  /\ UNCHANGED <<tokenPc, ttl, tokenErr, tokenLog>>
  /\ TokenFrame

\* configure/vault create or update with a token: the stored configuration
\* is replaced; the backend's cache is not touched
vaultConfigureCreateOrUpdate ==
  /\ \E t \in VaultTokens :
       /\ t # vaultToken
       /\ vaultToken' = t
  /\ UNCHANGED <<vaultTokenTTL, tokenPc, ttl, tokenErr, tokenLog>>
  /\ TokenFrame

\* configure/vault delete
vaultConfigureDelete ==
  /\ vaultToken # ""
  /\ vaultToken' = ""
  /\ UNCHANGED <<vaultTokenTTL, tokenPc, ttl, tokenErr, tokenLog>>
  /\ TokenFrame

NextToken ==
  \/ \E p \in Triggers : PeriodicTaskGo(p)
  \/ \E p \in Triggers : PeriodicTaskCAS(p)
  \/ \E p \in Triggers : PeriodicTaskReturn(p)
  \/ \E p \in Triggers : processGitBegin(p)
  \/ \E p \in Triggers : processGitInternalExit(p)
  \/ \E p \in Triggers : checkAndUpdateVaultTokenExpireTime(p)
  \/ \E p \in Triggers : initializeVaultTokenTTL(p)
  \/ \E p \in Triggers : RenewTokenSelf(p)
  \/ vaultConfigureCreateOrUpdate
  \/ vaultConfigureDelete
  \/ Tick

SpecToken == InitToken /\ [][NextToken]_vars

\* the check of trigger p takes its decision in this step
TokenDecides(p) == tokenPc[p] = "check" /\ tokenPc'[p] # "check"

\* C26 as stated: the renewal is called exactly when the cached token has a
\* non-zero TTL and its expiry is in the future and under 24 hours away
C26_RenewExactlyWhenFuture ==
  [][\A p \in Triggers :
       TokenDecides(p) =>
         (tokenPc'[p] = "renew"
            <=> /\ vaultTokenTTL.TTL # 0
                /\ vaultTokenTTL.ExpireTime > now
                /\ vaultTokenTTL.ExpireTime - now < OneDay)]_vars


\* the token check of trigger p failed
TokenCheckFailed(p) == tokenErr[p] \in {"config", "lookup", "renew"}

\* C26 (amended): a check that could read a valid vault configuration calls
\* RenewTokenSelf exactly when the cached token has a non-zero TTL and its
\* cached expiry is not in the past and less than 24 hours away (a check
\* that could not read one returns an error and renews nothing); a
\* successful renewal replaces the cache with the renewed TokenTTL; with 24
\* hours or more left the check returns with the cache as it was; and no
\* step of the check, failing or not, touches the reconciliation's state
C26_RenewExactlyWhenDue ==
  [][\A p \in Triggers :
       /\ TokenDecides(p) =>
            /\ tokenPc'[p] = "renew"
                 <=> /\ tokenErr'[p] # "config"
                     /\ vaultTokenTTL.TTL # 0
                     /\ vaultTokenTTL.ExpireTime >= now
                     /\ vaultTokenTTL.ExpireTime - now < OneDay
            /\ vaultTokenTTL' = vaultTokenTTL
            /\ vaultTokenTTL.ExpireTime - now >= OneDay => tokenPc'[p] = "idle"
       /\ (tokenPc[p] = "renew" /\ tokenPc'[p] = "idle") =>
            IF tokenErr'[p] = "nil"
              THEN /\ vaultTokenTTL'.TTL \in TokenTTLs
                   /\ vaultTokenTTL'.ExpireTime = now + vaultTokenTTL'.TTL
              ELSE vaultTokenTTL' = vaultTokenTTL
       /\ (tokenPc[p] # "idle" /\ tokenPc'[p] # tokenPc[p]) =>
            UNCHANGED <<storageVars, processGitCASGuard, localVars>>]_vars

\* one check renewed a token that had under a day left; the check another
\* trigger started failed, and that trigger's body has started all the same
C26_Witness ==
  \E p, q \in Triggers :
    /\ tokenPc[p] = "idle" /\ tokenLog[p] = "Token renewed successfully"
    /\ ttl[p].TTL # 0 /\ ttl[p].ExpireTime < vaultTokenTTL.ExpireTime
    /\ TokenCheckFailed(q)
    /\ pc[q] = "begin"


\* the cached token has a non-zero TTL and an expiry in the past
CacheExpired ==
  /\ vaultTokenTTL.TTL # 0
  /\ vaultTokenTTL.ExpireTime # 0
  /\ vaultTokenTTL.ExpireTime < now

\* no call that took its decision earlier still has a lookup or a renewal
\* under way
NoCallUnderWay == \A p \in Triggers : tokenPc[p] \notin {"init", "renew"}

NoCallRunning == \A q \in Triggers : pc[q] = "idle"

\* PeriodicTask or processGit returns: its locals are gone; what it
\* returned is kept until the next call
ReturnQueue(p, how) ==
  /\ pc' = [pc EXCEPT ![p] = "idle"]
  /\ outcome' = [outcome EXCEPT ![p] = how]
  /\ lfcArg' = [lfcArg EXCEPT ![p] = NoCommit]
  /\ commitHash' = [commitHash EXCEPT ![p] = NoCommit]
  /\ newTimeStamp' = [newTimeStamp EXCEPT ![p] = 0]

\* the call goes on to its next statement
GoOn(p, next) ==
  /\ pc' = [pc EXCEPT ![p] = next]
  /\ UNCHANGED <<outcome, lfcArg, commitHash, newTimeStamp>>

\* a task is in progress as PeriodicTask sees it
TaskInProgress(started, finished) == started # 0 /\ started # finished

\* what the task-queue variant leaves alone
QueueFrame ==
  UNCHANGED <<processStatus, processGitCASGuard, config, history, now, hashCommit,
              applyResult, worktree, ghostVars, applierVars, tokenVars>>

\* PeriodicTask: collectSavedWorkingCommits; a started commit that is not the
\* finished one: "task is in progress", return nil; else processGit
PeriodicTaskQueue(p) ==
  /\ NoCallRunning
  /\ \E ok \in BOOLEAN :
       IF ~ok
         THEN /\ pc' = pc
              /\ outcome' = [q \in Triggers |-> IF q = p THEN "storageErr" ELSE "none"]
              /\ UNCHANGED lfcArg
       ELSE IF TaskInProgress(lastStartedCommit, lastFinishedCommit.CommitHash)
         THEN /\ pc' = pc
              /\ outcome' = [q \in Triggers |-> IF q = p THEN "inProgress" ELSE "none"]
              /\ UNCHANGED lfcArg
       ELSE /\ pc' = [pc EXCEPT ![p] = "begin"]
            /\ outcome' = [q \in Triggers |-> "none"]
            /\ lfcArg' = [lfcArg EXCEPT ![p] = lastFinishedCommit]
  /\ UNCHANGED <<lastFinishedCommit, lastRunTimestamp, lastStartedCommit, task,
                 commitHash, newTimeStamp>>
  /\ QueueFrame

\* processGit up to CheckForNewCommitFrom: GetConfig, checkExceedingInterval,
\* newTimeStamp
processGitQueue(p) ==
  /\ pc[p] = "begin"
  /\ IF ~config.IsSet
       THEN ReturnQueue(p, "configErr")
       ELSE \E ok \in BOOLEAN :
              IF ~ok THEN ReturnQueue(p, "storageErr")
              ELSE IF ~checkExceedingInterval(GitPollPeriod)
                THEN ReturnQueue(p, "notExceeded")
                ELSE /\ pc' = [pc EXCEPT ![p] = "locate"]
                     /\ newTimeStamp' = [newTimeStamp EXCEPT ![p] = now]
                     /\ UNCHANGED <<outcome, lfcArg, commitHash>>
  /\ UNCHANGED <<lastFinishedCommit, lastRunTimestamp, lastStartedCommit, task>>
  /\ QueueFrame

\* CheckForNewCommitFrom(lastFinishedCommit): an error, no new commit (return
\* nil), or the commit found
CheckForNewCommitFrom(p) ==
  /\ pc[p] = "locate"
  /\ \E cloned \in BOOLEAN :
       IF ~cloned \/ Len(history) = 0
         THEN ReturnQueue(p, "locateErr")
         ELSE LET r == FindFirstSignedCommitFromHead(history, lfcArg[p], now,
                                                     config.Quorum) IN
              IF r.found = NoCommit
                THEN ReturnQueue(p, "noNew")
                ELSE /\ commitHash' = [commitHash EXCEPT ![p] = r.found]
                     /\ pc' = [pc EXCEPT ![p] = "createTask"]
                     /\ UNCHANGED <<outcome, lfcArg, newTimeStamp>>
  /\ UNCHANGED <<lastFinishedCommit, lastRunTimestamp, lastStartedCommit, task>>
  /\ QueueFrame

\* RunTask answers ErrBusy while a task is running, and another error or the
\* new task's uuid otherwise; the new task is started
RunTask(h) ==
  IF task.state = "running" THEN {[err |-> "ErrBusy", task |-> task]}
  ELSE {[err |-> "err", task |-> task],
        [err |-> "nil", task |-> [state |-> "running", commit |-> h]]}

\* the last_started_commit write is made whether or not a task was created
createTaskAlways(p) ==
  /\ pc[p] = "createTask"
  /\ \E r \in RunTask(commitHash[p].CommitHash), saved \in BOOLEAN :
       /\ task' = r.task
       /\ IF r.err = "err" \/ (r.err = "nil" /\ ~saved)
            THEN ReturnQueue(p, "taskErr")
            ELSE GoOn(p, "storeStarted")
  /\ UNCHANGED <<lastFinishedCommit, lastRunTimestamp, lastStartedCommit>>
  /\ QueueFrame

\* createTask and the test of its result: ErrBusy, no task and no error, the
\* last_started_commit write is skipped; another error of RunTask or of
\* SaveTask, return it; a task created and saved, go on to the write
createTask(p) ==
  /\ pc[p] = "createTask"
  /\ \E r \in RunTask(commitHash[p].CommitHash), saved \in BOOLEAN :
       /\ task' = r.task
       /\ IF r.err = "ErrBusy"
            THEN GoOn(p, "updateTs")
          ELSE IF r.err = "err" \/ ~saved
            THEN ReturnQueue(p, "taskErr")
            ELSE GoOn(p, "storeStarted")
  /\ UNCHANGED <<lastFinishedCommit, lastRunTimestamp, lastStartedCommit>>
  /\ QueueFrame

\* storeLastStartedCommit(*commitHash)
storeLastStartedCommit(p) ==
  /\ pc[p] = "storeStarted"
  /\ \E ok \in BOOLEAN :
       IF ok
         THEN /\ lastStartedCommit' = commitHash[p].CommitHash
              /\ GoOn(p, "updateTs")
         ELSE /\ ReturnQueue(p, "storageErr")
              /\ UNCHANGED lastStartedCommit
  /\ UNCHANGED <<lastFinishedCommit, lastRunTimestamp, task>>
  /\ QueueFrame

\* return updateLastRunTimeStamp(newTimeStamp)
updateLastRunTimeStampQueue(p) ==
  /\ pc[p] = "updateTs"
  /\ \E ok \in BOOLEAN :
       IF ok
         THEN /\ lastRunTimestamp' = newTimeStamp[p]
              /\ ReturnQueue(p, "nil")
         ELSE /\ ReturnQueue(p, "storageErr")
              /\ UNCHANGED lastRunTimestamp
  /\ UNCHANGED <<lastFinishedCommit, lastStartedCommit, task>>
  /\ QueueFrame

\* the task runs processCommit(commitHash) in the worker: on success its last
\* statement stores last_finished_commit; on failure (of the apply or of that
\* write) nothing is stored
taskEnds ==
  /\ task.state = "running"
  /\ \E ok \in BOOLEAN :
       IF ok
         THEN /\ task' = [task EXCEPT !.state = "succeeded"]
              /\ lastFinishedCommit' =
                   CommitInfo(task.commit, history[task.commit].CommitDate)
         ELSE /\ task' = [task EXCEPT !.state = "failed"]
              /\ UNCHANGED lastFinishedCommit
  /\ UNCHANGED <<lastRunTimestamp, lastStartedCommit, newTimeStamp, pc, outcome,
                 lfcArg, commitHash>>
  /\ QueueFrame

NextQueue ==
  \/ \E p \in Triggers : PeriodicTaskQueue(p)
  \/ \E p \in Triggers : processGitQueue(p)
  \/ \E p \in Triggers : CheckForNewCommitFrom(p)
  \/ \E p \in Triggers : createTask(p)
  \/ \E p \in Triggers : storeLastStartedCommit(p)
  \/ \E p \in Triggers : updateLastRunTimeStampQueue(p)
  \/ taskEnds
  \/ Tick
  \/ Push

SpecQueue == Init /\ [][NextQueue]_vars

\* a task is started in this step
TaskStarts == task' # task /\ task'.state = "running"

\* C27: in the task-queue variant a call of PeriodicTask goes to look for a
\* new commit only after it read a last_started_commit that is empty or
\* equal to the last_finished_commit it read; last_started_commit is written
\* only by a call that created a task in this call, and with that task's
\* commit; on ErrBusy the call does not go on to the write; and a task is
\* started only while no task is running, by such a call and for the commit
\* it found: at most one commit is in work at any time
C27_OneCommitInWork ==
  /\ [](\A p \in Triggers :
          pc[p] \in {"begin", "locate", "createTask"} =>
            ~TaskInProgress(lastStartedCommit, lfcArg[p].CommitHash))
  /\ [][/\ lastStartedCommit' # lastStartedCommit =>
            \E p \in Triggers :
              /\ pc[p] = "storeStarted"
              /\ task.state # "none"
              /\ task.commit = commitHash[p].CommitHash
              /\ lastStartedCommit' = task.commit
        /\ \A p \in Triggers :
             (pc[p] = "createTask" /\ pc'[p] # "createTask"
                /\ task.state = "running") =>
               /\ pc'[p] # "storeStarted"
               /\ task' = task
        /\ TaskStarts =>
             /\ task.state # "running"
             /\ \E p \in Triggers :
                  /\ pc[p] = "createTask"
                  /\ task'.commit = commitHash[p].CommitHash]_vars

\* a task is running, RunTask answered ErrBusy to a call that had found a
\* commit, and the call stands before its timestamp write with
\* last_started_commit not written
C27_Witness ==
  \E p \in Triggers :
    /\ pc[p] = "updateTs"
    /\ task.state = "running"
    /\ lastStartedCommit # commitHash[p].CommitHash

\* a call of PeriodicTask is made, or the call that is running takes a step
CallStep ==
  \/ \E p \in Triggers : PeriodicTaskQueue(p)
  \/ \E p \in Triggers : processGitQueue(p)
  \/ \E p \in Triggers : CheckForNewCommitFrom(p)
  \/ \E p \in Triggers : createTask(p)
  \/ \E p \in Triggers : storeLastStartedCommit(p)
  \/ \E p \in Triggers : updateLastRunTimeStampQueue(p)

\* PeriodicTask keeps being called and every call runs to its return; a task
\* that was started ends; the clock goes on
SpecQueueLive ==
  /\ Init
  /\ [][NextQueue]_vars
  /\ WF_vars(CallStep)
  /\ WF_vars(taskEnds)
  /\ WF_vars(Tick)

\* the task of the commit recorded as started has ended in failure
StartedTaskFailed ==
  /\ task.state = "failed"
  /\ lastStartedCommit = task.commit
  /\ TaskInProgress(lastStartedCommit, lastFinishedCommit.CommitHash)

\* C28: in the task-queue variant, after the task of the started commit has
\* ended in failure, a later call of PeriodicTask comes to look for commits
\* again: the state "task is in progress" does not last forever
C28_FailedTaskIsRetried ==
  StartedTaskFailed ~> (\E p \in Triggers : pc[p] = "locate")

\* ------------------------------------- three commits and a stale boundary
\* A state the program reaches from Init: commit 1, dated 2, was applied and
\* recorded as last_finished_commit. Trigger 2 had read the empty
\* last_finished_commit before that; it has since taken the guard and stands
\* before its Locator call. Trigger 1 has read last_finished_commit (commit
\* 1) and stands before the guard. Two more commits have been pushed.
InitOlder ==
  /\ \E c2 \in PushChoices, c3 \in PushChoices :
       history = <<[CommitDate |-> StartTime + 1, Signatures |-> <<"K1">>], c2, c3>>
  /\ lastFinishedCommit = CommitInfo(1, StartTime + 1)
  /\ lastRunTimestamp = StartTime + 1
  /\ processStatus = StatusSuccess(1)
  /\ processGitCASGuard = 1
  /\ config = [IsSet |-> TRUE, Quorum |-> 1]
  /\ now = StartTime + 1
  /\ pc = [p \in Triggers |-> IF p = 1 THEN "cas" ELSE "locate"]
  /\ lfcArg = [p \in Triggers |-> IF p = 1 THEN CommitInfo(1, StartTime + 1) ELSE NoCommit]
  /\ commitHash = [p \in Triggers |-> NoCommit]
  /\ hashCommit = [p \in Triggers |-> 0]
  /\ applyResult = [p \in Triggers |-> "none"]
  /\ worktree = [p \in Triggers |-> 0]
  /\ outcome = [p \in Triggers |-> "none"]
  /\ verified = {}
  /\ lfcAtAcquire = [p \in Triggers |-> IF p = 1 THEN NoCommit
                                                 ELSE CommitInfo(1, StartTime + 1)]
  /\ pushedSinceFinish = TRUE
  /\ pending = NoPending
  /\ seenPending = [p \in Triggers |-> FALSE]
  /\ retryOf = [p \in Triggers |-> NoPending]
  /\ pushedSinceLocate = FALSE
  /\ NoApplier
  /\ NoToken
  /\ NoQueue

\* nothing more is pushed
NextOlder ==
  \/ \E p \in Triggers : PeriodicTaskRead(p)
  \/ \E p \in Triggers : PeriodicTaskCAS(p)
  \/ \E p \in Triggers : PeriodicTaskReturn(p)
  \/ \E p \in Triggers : processGitBegin(p)
  \/ \E p \in Triggers : updateLastRunTimeStamp(p)
  \/ \E p \in Triggers : Locate(p)
  \/ \E p \in Triggers : storeNoNew(p)
  \/ \E p \in Triggers : storeProcessing(p)
  \/ \E p \in Triggers : processCommit(p)
  \/ \E p \in Triggers : storeFailed(p)
  \/ \E p \in Triggers : storeSuccess(p)
  \/ \E p \in Triggers : storeLastFinishedCommit(p)
  \/ \E p \in Triggers : processGitInternalExit(p)
  \/ Tick
  \/ Crash

SpecOlder == InitOlder /\ [][NextOlder]_vars

\* C29: the Locator hands back the qualifying commit nearest the tip, the
\* attempt passes that commit and no other to processCommit, and no attempt
\* passes to processCommit a commit older than (nearer the root than) the
\* commit recorded as last_finished_commit
C29_OlderNeverApplied ==
  [][\A p \in Triggers :
       /\ (pc[p] = "locate" /\ pc'[p] = "storeProcessing") =>
            commitHash'[p] = FirstQualifying(history, lfcArg[p], now, config.Quorum)
       /\ (pc[p] # "applying" /\ pc'[p] = "applying") =>
            /\ hashCommit'[p] = commitHash[p].CommitHash
            /\ ~(hashCommit'[p] < lastFinishedCommit.CommitHash)]_vars

====
